---------------------------- MODULE Spec2Model ----------------------------
(***************************************************************************)
(* A model of etcd-ocp-diag.py: the log scanning and aggregation engine.   *)
(*                                                                         *)
(* Text is modelled as a sequence of chunks.  A chunk is a string that the *)
(* code never looks inside (a catalog pattern, a date, a digit, a unit     *)
(* letter); the string operations of the code (in, split, removesuffix,    *)
(* count, float) are operators over such sequences.                        *)
(*                                                                         *)
(* Durations are floats in the code.  Here a duration is an integer number *)
(* of tenths of a millisecond; tokens carry at most one fractional digit,  *)
(* so every value of the model is exact.                                   *)
(***************************************************************************)
EXTENDS Integers, Sequences, FiniteSets, TLC

VARIABLES
    \* --- duration normalization (one token, two conversion sites)
    took_time,      \* the duration token, a sequence of characters
    took_shape,     \* how the token was written: [shape, x, y]
    took_ms,        \* result of _convert_took_to_ms, or Unset
    stat_ms         \* result of the conversion inlined in calc_etcd_stats

durVars == <<took_time, took_shape, took_ms, stat_ms>>

VARIABLES
    \* --- get_dirs
    pod_list,       \* what input_dir.rglob(pod_glob) lists: a sequence of names
    dirs            \* what get_dirs returned: [done, list]

dirVars == <<pod_list, dirs>>

VARIABLES
    \* --- get_rotated_logs
    dir_path,       \* the pod directory: [path, empty]
    rotated_file_list,   \* the names the glob of rotated/* yields, in listing order
    sorted_rotated_logs  \* what get_rotated_logs returned: [r, list]

rotVars == <<dir_path, rotated_file_list, sorted_rotated_logs>>

VARIABLES
    \* --- one run of an aggregator (etcd_errors, msg_count or etcd_stats)
    directories,        \* the argument: pod names in the order get_dirs gave
    rotated_logs,       \* the argument: rotated logs are selected
    sorted_directories, \* directories sorted by pod name
    pod_i,              \* position of the for loop in sorted_directories
    pc,                 \* where the run is
    file,               \* the lines not yet read of the file being scanned
    out,                \* what has been printed, in order: of a result block
                        \* its label and how far it got
    last_block,         \* the result block the last step printed, with all its
                        \* fields (NoBlock when the last step printed none)
    exc,                \* the exception that left the aggregator, or "none"
    opened,             \* the path of the log the last step opened (<<>> when
                        \* it opened none)
    handles             \* the paths of the files that are open, in the order
                        \* they were opened

runVars == <<directories, rotated_logs, sorted_directories, pod_i, pc, file, out,
            last_block, exc, opened, handles>>

VARIABLES
    \* --- calc_etcd_stats: the locals of one file scan
    first_err, last_err, expected_time, error_count, etcd_error_stats,
    \* what was written to the logs, kept for the properties:
    log_truth,      \* of the log being scanned: [pod, k, full]
    truth_samples   \* the durations and timestamps in the log being scanned

statVars == <<first_err, last_err, expected_time, error_count, etcd_error_stats,
              log_truth, truth_samples>>

VARIABLES
    \* --- etcd_errors and msg_count: the pod label and the rotated logs loop
    pod_known,          \* the argument: the pod was named on the command line
    etcd_pod_name,      \* the argument, or the name of the current directory
    rotated_logs_list,  \* what get_rotated_logs returned for the current pod
    log_i               \* position of the for loop in rotated_logs_list

aggVars == <<pod_known, etcd_pod_name, rotated_logs_list, log_i>>

VARIABLES
    \* --- etcd_errors
    etcd_count,     \* the dict (pod, error) -> count, in insertion order:
                    \* a sequence of [pod, error, count]
    \* what was in the files read, kept for the properties:
    line_count      \* (pod, error) -> number of lines read that contain error

errVars == <<etcd_count, line_count>>

VARIABLES
    \* --- msg_count
    err_date_search,    \* the argument: a date was given
    compare_times,      \* the argument: compare across pods
    errors,             \* the rows collected so far
    json_dates,         \* the Counter of the current pod, in insertion order:
                        \* a sequence of [key, count]
    max_times,          \* the dict bucket -> largest duration, as a set of
                        \* [key, ms]
    \* the logs of the run:
    lines_left,         \* the number of lines in the logs not yet opened
    counted_truth       \* what the payloads counted from the logs of the
                        \* pod since its rows were last written hold: the
                        \* bucket of the timestamp and the duration

msgVars == <<err_date_search, compare_times, errors, json_dates, max_times, lines_left,
             counted_truth>>

VARIABLES
    \* --- main and execute_command: one batch invocation
    args,           \* what is on the command line: [path, op, previous,
                    \* rotated, date]
    main_pc,        \* where the invocation is
    reported,       \* the error message printed ("" when none)
    operation,      \* the aggregator that was started ("none" when none)
    exit_status     \* the exit status of the process (-1 while it runs)

VARIABLES
    \* --- interactive_mode, folder_navigation_mode and command_mode
    frames,          \* the functions of the interactive mode that are active,
                     \* the caller first; the last one is at its prompt
    user_input,      \* the line read last, as its words
    current_path,    \* of the active folder_navigation_mode
    previous_path,   \* of the active folder_navigation_mode
    display_options, \* of the active folder_navigation_mode
    base_path        \* of the active command_mode

uiVars == <<frames, user_input, current_path, previous_path, display_options, base_path>>

cliVars == <<args, main_pc, reported, operation, exit_status, uiVars>>

vars == <<durVars, dirVars, rotVars, runVars, statVars, aggVars, errVars, msgVars, cliVars>>

Unset == [r |-> "unset", val |-> 0]

-----------------------------------------------------------------------------
(* String operations of Python, over sequences of chunks.                  *)

\* p in s
Contains(s, p) ==
    \E i \in 1..(Len(s) - Len(p) + 1) : SubSeq(s, i, i + Len(p) - 1) = p

\* s.removesuffix(p)
RemoveSuffix(s, p) ==
    IF Len(s) >= Len(p) /\ SubSeq(s, Len(s) - Len(p) + 1, Len(s)) = p
    THEN SubSeq(s, 1, Len(s) - Len(p))
    ELSE s

\* s.split(c), c a single chunk: the list of the parts between the separators
RECURSIVE Split(_, _)
Split(s, c) ==
    IF \A i \in 1..Len(s) : s[i] # c
    THEN <<s>>
    ELSE LET i == CHOOSE j \in 1..Len(s) :
                     s[j] = c /\ \A k \in 1..(j - 1) : s[k] # c
         IN  <<SubSeq(s, 1, i - 1)>> \o Split(SubSeq(s, i + 1, Len(s)), c)

\* s.count(p), p one chunk: the number of (non-overlapping) occurrences
RECURSIVE Count(_, _)
Count(s, c) ==
    IF s = <<>> THEN 0
    ELSE (IF Head(s) = c THEN 1 ELSE 0) + Count(Tail(s), c)

DigitChars == {"0", "1", "2", "3", "4", "5", "6", "7", "8", "9"}

DigitVal ==
    ("0" :> 0) @@ ("1" :> 1) @@ ("2" :> 2) @@ ("3" :> 3) @@ ("4" :> 4) @@
    ("5" :> 5) @@ ("6" :> 6) @@ ("7" :> 7) @@ ("8" :> 8) @@ ("9" :> 9)

RECURSIVE DecVal(_)
DecVal(s) ==
    IF s = <<>> THEN 0
    ELSE DecVal(SubSeq(s, 1, Len(s) - 1)) * 10 + DigitVal[s[Len(s)]]

\* float(s) succeeds: digits with at most one point and at least one digit
FloatOk(s) ==
    /\ \A i \in 1..Len(s) : s[i] \in DigitChars \cup {"."}
    /\ Count(s, ".") <= 1
    /\ \E i \in 1..Len(s) : s[i] \in DigitChars

\* float(s), in tenths
FloatVal(s) ==
    LET parts == Split(s, ".")
        frac  == IF Len(parts) = 2 /\ parts[2] # <<>> THEN DigitVal[parts[2][1]] ELSE 0
    IN  DecVal(parts[1]) * 10 + frac

Ok(v)      == [r |-> "ok", val |-> v]
ValueError == [r |-> "ValueError", val |-> 0]
NoSample   == [r |-> "none", val |-> 0]

-----------------------------------------------------------------------------
(* Duration normalization.                                                 *)

\* The branch for the minutes composite, shared by both conversion sites:
\*   took_min, took_sec = took_time.split("m")
\*   took_sec = took_sec.removesuffix("s")
\*   float(took_min) * 60000 + float(took_sec) * 1000
MinutesBranch(t) ==
    LET parts == Split(t, "m")
    IN  IF Len(parts) # 2 THEN ValueError
        ELSE LET took_min == parts[1]
                 took_sec == RemoveSuffix(parts[2], <<"s">>)
             IN  IF FloatOk(took_min) /\ FloatOk(took_sec)
                 THEN Ok(FloatVal(took_min) * 60000 + FloatVal(took_sec) * 1000)
                 ELSE ValueError

MsBranch(t) ==
    LET x == RemoveSuffix(t, <<"m", "s">>)
    IN  IF FloatOk(x) THEN Ok(FloatVal(x)) ELSE ValueError

SecondsBranch(t) ==
    LET x == RemoveSuffix(t, <<"s">>)
    IN  IF FloatOk(x) THEN Ok(FloatVal(x) * 1000) ELSE ValueError

\* A plausible slip: the bare minutes marker is tested before the suffix "ms".
ConvertTookToMsMinutesFirst(t) ==
    IF Contains(t, <<"m">>) THEN MinutesBranch(t)
    ELSE IF Contains(t, <<"m", "s">>) THEN MsBranch(t)
    ELSE IF Contains(t, <<"s">>) THEN SecondsBranch(t)
    ELSE Ok(0)

\* _convert_took_to_ms
ConvertTookToMs(t) ==
    IF Contains(t, <<"m", "s">>) THEN MsBranch(t)
    ELSE IF Contains(t, <<"m">>) THEN MinutesBranch(t)
    ELSE IF Contains(t, <<"s">>) THEN SecondsBranch(t)
    ELSE Ok(0)

\* The conversion inlined in calc_etcd_stats: no fallback, a token of no
\* recognized shape appends no sample.
StatsTookToMs(t) ==
    IF Contains(t, <<"m", "s">>) THEN MsBranch(t)
    ELSE IF Contains(t, <<"m">>) THEN MinutesBranch(t)
    ELSE IF Contains(t, <<"s">>) THEN SecondsBranch(t)
    ELSE NoSample

-----------------------------------------------------------------------------
(* Each specification below runs one part of the program; the variables of *)
(* the other parts stay at these values.                                   *)

DirIdle ==
    /\ pod_list = <<>>
    /\ dirs = [done |-> FALSE, list |-> <<>>]

RotIdle ==
    /\ dir_path = [path |-> <<>>, empty |-> TRUE]
    /\ rotated_file_list = <<>>
    /\ sorted_rotated_logs = [r |-> "unset", list |-> <<>>]

\* a result block of print_stats; numbers are in units of 0.0001 ms
Header(pod, rotated) ==
    [pod |-> pod, rotated |-> rotated, stage |-> "header",
     first |-> <<>>, last |-> <<>>, max |-> 0, maxts |-> <<>>, min |-> 0,
     median |-> 0, average |-> 0, count |-> 0, expected |-> <<>>]

NoBlock == [Header("", FALSE) EXCEPT !.stage = "none"]

RunIdle ==
    /\ directories = <<>>
    /\ rotated_logs = FALSE
    /\ sorted_directories = <<>>
    /\ pod_i = 0
    /\ pc = "idle"
    /\ file = <<>>
    /\ out = <<>>
    /\ last_block = NoBlock
    /\ exc = "none"
    /\ opened = <<>>
    /\ handles = <<>>

None == [set |-> FALSE, list |-> <<>>]

NoTruth == [pod |-> "", k |-> 0, full |-> FALSE]

StatIdle ==
    /\ first_err = None
    /\ last_err = None
    /\ expected_time = <<>>
    /\ error_count = 0
    /\ etcd_error_stats = <<>>
    /\ log_truth = NoTruth
    /\ truth_samples = <<>>

AggIdle ==
    /\ pod_known = FALSE
    /\ etcd_pod_name = ""
    /\ rotated_logs_list = <<>>
    /\ log_i = 0

ErrIdle ==
    /\ etcd_count = <<>>
    /\ line_count = <<>>

NoArgs ==
    [path |-> "absent", op |-> "none", previous |-> FALSE, rotated |-> FALSE,
     date |-> "absent"]

\* no path: None in the code
NoPath == << "<None>" >>

\* no line read yet
NoInput == << "<no input>" >>

UiIdle ==
    /\ frames = <<>>
    /\ user_input = NoInput
    /\ current_path = NoPath
    /\ previous_path = NoPath
    /\ display_options = <<>>
    /\ base_path = NoPath

CliIdle ==
    /\ UiIdle
    /\ args = NoArgs
    /\ main_pc = "idle"
    /\ reported = ""
    /\ operation = "none"
    /\ exit_status = -1

MsgIdle ==
    /\ err_date_search = FALSE
    /\ compare_times = FALSE
    /\ errors = <<>>
    /\ json_dates = <<>>
    /\ max_times = {}
    /\ lines_left = 0
    /\ counted_truth = <<>>

-----------------------------------------------------------------------------
(* Duration tokens as etcd writes them: a decimal number is rendered with  *)
(* at most one fractional digit.                                           *)

MaxTookInt == 12

DigitChar == <<"0", "1", "2", "3", "4", "5", "6", "7", "8", "9">>

RECURSIVE Render(_)
Render(n) ==
    IF n < 10 THEN <<DigitChar[n + 1]>>
    ELSE Render(n \div 10) \o <<DigitChar[(n % 10) + 1]>>

\* a number [int, frac]; frac = -1 means no fractional part is written
Numbers == [int : (0..MaxTookInt) \cup {1500}, frac : {-1, 0, 5}]

RenderNumber(n) ==
    Render(n.int) \o (IF n.frac < 0 THEN <<>> ELSE <<".", DigitChar[n.frac + 1]>>)

\* the value of a number, in tenths
Tenths(n) == n.int * 10 + (IF n.frac < 0 THEN 0 ELSE n.frac)

Zero == [int |-> 0, frac |-> -1]

TookShapes ==
    [shape : {"ms", "s"}, x : Numbers, y : {Zero}]
        \cup [shape : {"m"}, x : Numbers, y : Numbers]
        \cup [shape : {"other"}, x : Numbers, y : {Zero}]

RenderTook(sh) ==
    CASE sh.shape = "ms" -> RenderNumber(sh.x) \o <<"m", "s">>
      [] sh.shape = "s"  -> RenderNumber(sh.x) \o <<"s">>
      [] sh.shape = "m"  -> RenderNumber(sh.x) \o <<"m">> \o RenderNumber(sh.y) \o <<"s">>
      [] OTHER           -> RenderNumber(sh.x) \o <<"h">>

\* milliseconds (in tenths) that a token of the shape stands for
ShapeMs(sh) ==
    CASE sh.shape = "ms" -> Tenths(sh.x)
      [] sh.shape = "s"  -> Tenths(sh.x) * 1000
      [] sh.shape = "m"  -> Tenths(sh.x) * 60000 + Tenths(sh.y) * 1000
      [] OTHER           -> 0

DurIdle ==
    /\ took_shape = [shape |-> "other", x |-> Zero, y |-> Zero]
    /\ took_time = <<>>
    /\ took_ms = Unset
    /\ stat_ms = Unset

InitDur ==
    /\ took_shape \in TookShapes
    /\ took_time = RenderTook(took_shape)
    /\ took_ms = Unset
    /\ stat_ms = Unset
    /\ DirIdle /\ RotIdle /\ RunIdle /\ StatIdle /\ AggIdle /\ ErrIdle /\ MsgIdle /\ CliIdle

\* msg_count calls _convert_took_to_ms on result["took"]
CallConvertTookToMs ==
    /\ took_ms = Unset
    /\ took_ms' = ConvertTookToMs(took_time)
    /\ UNCHANGED <<took_time, took_shape, stat_ms, dirVars, rotVars, runVars, statVars, aggVars, errVars, msgVars, cliVars>>

\* calc_etcd_stats converts result["took"] in line
CallStatsTookToMs ==
    /\ stat_ms = Unset
    /\ stat_ms' = StatsTookToMs(took_time)
    /\ UNCHANGED <<took_time, took_shape, took_ms, dirVars, rotVars, runVars, statVars, aggVars, errVars, msgVars, cliVars>>

NextDur == CallConvertTookToMs \/ CallStatsTookToMs

SpecDur == InitDur /\ [][NextDur]_vars

\* C4: a token 'Xms' yields X milliseconds, 'Xs' yields 1000*X and 'XmYs'
\* yields 60000*X + 1000*Y; an 'Xms' token is never parsed as a minutes
\* composite; both conversion sites give the same value for every token of
\* the three shapes.
DurationNormalized ==
    took_shape.shape \in {"ms", "s", "m"} =>
        /\ took_ms # Unset => took_ms = Ok(ShapeMs(took_shape))
        /\ stat_ms # Unset => stat_ms = Ok(ShapeMs(took_shape))

\* "1m2.5s" has been converted at both sites, to 62500.0 ms
DurationWitness ==
    /\ took_time = <<"1", "m", "2", ".", "5", "s">>
    /\ took_ms = Ok(625000)
    /\ stat_ms = Ok(625000)

-----------------------------------------------------------------------------
(* get_dirs: the pod directories under the must-gather.                    *)
(* A name is a sequence of the chunks below ("quorum-" is one chunk).      *)

NameChunks == {"etcd", "-", "guard", "quorum-", "m"}

MaxNameLen == 6

Names == UNION {[1..n -> NameChunks] : n \in 1..MaxNameLen}

StartsWith(s, p) == Len(s) >= Len(p) /\ SubSeq(s, 1, Len(p)) = p

\* the lookahead  (?!<word>(-.*)?$)  at the start of rest fails, that is
\* <word> stands there, followed by the end of the name or by "-" and
\* anything up to the end
GuardAhead(rest, word) ==
    /\ StartsWith(rest, word)
    /\ \/ Len(rest) = Len(word)
       \/ rest[Len(word) + 1] = "-"

\* A plausible slip: the lookaheads exclude the two exact names only,
\*   ^etcd-(?!guard$)(?!quorum-guard$)
DirPatternExact(name) ==
    /\ StartsWith(name, <<"etcd", "-">>)
    /\ SubSeq(name, 3, Len(name)) # <<"guard">>
    /\ SubSeq(name, 3, Len(name)) # <<"quorum-", "guard">>

\* re.search(r"^etcd-(?!guard(-.*)?$)(?!quorum-guard(-.*)?$)", pod.name)
DirPattern(name) ==
    /\ StartsWith(name, <<"etcd", "-">>)
    /\ ~GuardAhead(SubSeq(name, 3, Len(name)), <<"guard">>)
    /\ ~GuardAhead(SubSeq(name, 3, Len(name)), <<"quorum-", "guard">>)

\* [pod for pod in pod_list if re.search(pattern, pod.name)]
GetDirs(list) == SelectSeq(list, DirPattern)

\* Pod directories of an OpenShift must-gather, for listings of two entries
ClusterNames ==
    { <<"etcd", "-", "m">>,
      <<"etcd", "-", "guard", "-", "m">>,
      <<"etcd", "-", "quorum-", "guard", "-", "m">>,
      <<"etcd", "-", "guard">>,
      <<"etcd", "-", "quorum-", "guard">>,
      <<"etcd", "-", "guard", "m">> }

InitDirs ==
    /\ pod_list \in {<<n>> : n \in Names}
                      \cup {<<a, b>> : a \in ClusterNames, b \in ClusterNames}
    /\ dirs = [done |-> FALSE, list |-> <<>>]
    /\ DurIdle /\ RotIdle /\ RunIdle /\ StatIdle /\ AggIdle /\ ErrIdle /\ MsgIdle /\ CliIdle

CallGetDirs ==
    /\ ~dirs.done
    /\ dirs' = [done |-> TRUE, list |-> GetDirs(pod_list)]
    /\ UNCHANGED <<pod_list, durVars, rotVars, runVars, statVars, aggVars, errVars, msgVars, cliVars>>

NextDirs == CallGetDirs

SpecDirs == InitDirs /\ [][NextDirs]_vars

Returned(name) == \E i \in 1..Len(dirs.list) : dirs.list[i] = name

\* C10 as stated: a directory found by the glob is returned if and only if
\* its final path segment starts with 'etcd-' and is not exactly
\* 'etcd-guard' or 'etcd-quorum-guard'; 'etcd-guard-master-0' is returned.
DirsExactGuardOnly ==
    dirs.done =>
        \A i \in 1..Len(pod_list) :
            Returned(pod_list[i]) <=>
                /\ StartsWith(pod_list[i], <<"etcd", "-">>)
                /\ pod_list[i] # <<"etcd", "-", "guard">>
                /\ pod_list[i] # <<"etcd", "-", "quorum-", "guard">>

\* C10 amended: a directory found by the glob is returned if and only if
\* its final path segment starts with 'etcd-' and what follows 'etcd-' is
\* neither 'guard' nor 'quorum-guard' and begins with neither 'guard-' nor
\* 'quorum-guard-' ('etcd-guard-master-0' is not returned).
DirsGuardFamilyExcluded ==
    dirs.done =>
        \A i \in 1..Len(pod_list) :
            Returned(pod_list[i]) <=>
                /\ StartsWith(pod_list[i], <<"etcd", "-">>)
                /\ pod_list[i] # <<"etcd", "-", "guard">>
                /\ pod_list[i] # <<"etcd", "-", "quorum-", "guard">>
                /\ ~StartsWith(pod_list[i], <<"etcd", "-", "guard", "-">>)
                /\ ~StartsWith(pod_list[i], <<"etcd", "-", "quorum-", "guard", "-">>)

\* a listing of a member pod and a guard pod of a node: the member is
\* returned, the guard pod is not
DirsWitness ==
    /\ dirs.done
    /\ pod_list = << <<"etcd", "-", "guard", "-", "m">>, <<"etcd", "-", "m">> >>
    /\ dirs.list = << <<"etcd", "-", "m">> >>

-----------------------------------------------------------------------------
(* get_rotated_logs and extract_datetime.                                  *)
(* A path is a sequence of chunks; a chunk of Stamps is a run of text that *)
(* the pattern \d{8}-\d{6} matches.                                        *)

Stamps == {"20230829-235959", "20230830-000000", "20230830-101500", "20231001-000000"}

\* datetime.strptime(date_str, "%Y%m%d-%H%M%S")
Strptime ==
    ("20230829-235959" :> <<2023, 8, 29, 23, 59, 59>>) @@
    ("20230830-000000" :> <<2023, 8, 30, 0, 0, 0>>) @@
    ("20230830-101500" :> <<2023, 8, 30, 10, 15, 0>>) @@
    ("20231001-000000" :> <<2023, 10, 1, 0, 0, 0>>)

\* datetime.min
DatetimeMin == <<1, 1, 1, 0, 0, 0>>

\* a < b for datetimes
DatetimeBefore(a, b) ==
    \E i \in 1..Len(a) :
        /\ a[i] < b[i]
        /\ \A j \in 1..(i - 1) : a[j] = b[j]

\* extract_datetime: the first match of the date pattern in the whole path
ExtractDatetime(file_path) ==
    IF \E i \in 1..Len(file_path) : file_path[i] \in Stamps
    THEN LET i == CHOOSE j \in 1..Len(file_path) :
                     /\ file_path[j] \in Stamps
                     /\ \A k \in 1..(j - 1) : file_path[k] \notin Stamps
         IN  Strptime[file_path[i]]
    ELSE DatetimeMin

\* a chunk whose last character is a digit
EndsInDigit(c) == c \in DigitChars \cup Stamps

\* re.search(r"[0-9]\.log\.+(?!\.gz)", name): a digit, ".log", then one or
\* more points (k of them taken) not followed by ".gz"
RotatedPattern(name) ==
    \E i \in 1..Len(name) : \E k \in 1..Len(name) :
        /\ i + 2 + k <= Len(name)
        /\ EndsInDigit(name[i])
        /\ name[i + 1] = "."
        /\ name[i + 2] = "log"
        /\ \A d \in 1..k : name[i + 2 + d] = "."
        /\ ~StartsWith(SubSeq(name, i + 3 + k, Len(name)), <<".", "gz">>)

\* sorted(list, key): Python's sort is stable
RECURSIVE InsertByDate(_, _)
InsertByDate(x, s) ==
    IF s = <<>> THEN <<x>>
    ELSE IF DatetimeBefore(ExtractDatetime(x), ExtractDatetime(Head(s)))
         THEN <<x>> \o s
         ELSE <<Head(s)>> \o InsertByDate(x, Tail(s))

RECURSIVE SortByDate(_)
SortByDate(s) ==
    IF s = <<>> THEN <<>>
    ELSE InsertByDate(s[Len(s)], SortByDate(SubSeq(s, 1, Len(s) - 1)))

RotatedSubPath == <<"/", "etcd", "/", "etcd", "/", "logs", "/", "rotated", "/">>

\* get_rotated_logs: None for an empty pod directory, else the names that
\* match the rotation pattern, as full paths sorted by extract_datetime
GetRotatedLogs(d, listing) ==
    IF d.empty THEN [r |-> "None", list |-> <<>>]
    ELSE LET full(i) == d.path \o RotatedSubPath \o listing[i]
             rotated_log_names ==
                 SelectSeq([i \in 1..Len(listing) |-> full(i)],
                           LAMBDA p : RotatedPattern(SubSeq(p, Len(d.path) + Len(RotatedSubPath) + 1, Len(p))))
         IN  [r |-> "list", list |-> SortByDate(rotated_log_names)]

\* the file name of a path returned by get_rotated_logs
FileName(p) == SubSeq(p, Len(dir_path.path) + Len(RotatedSubPath) + 1, Len(p))

MaxRotated == 3

RotatedNames ==
    { <<"0", ".", "log", ".", "20230829-235959">>,
      <<"0", ".", "log", ".", "20230830-000000">>,
      <<"0", ".", "log", ".", "20231001-000000">>,
      <<"0", ".", "log", ".", "20230830-000000", ".", "gz">>,
      <<"0", ".", "log", ".", "1">>,
      <<"0", ".", "log", ".", ".", "gz">>,
      <<"0", ".", "log">>,
      <<"current", ".", "log", ".", "20230829-235959">> }

PodDirs ==
    { <<"/", "mg", "/", "pods", "/", "etcd", "-", "m">>,
      <<"/", "mg", ".", "20230830-101500", "/", "pods", "/", "etcd", "-", "m">> }

\* listings: every order of up to MaxRotated distinct names
Listings ==
    UNION { { s \in [1..n -> RotatedNames] :
                \A i \in 1..n : \A j \in 1..n : i # j => s[i] # s[j] }
            : n \in 0..MaxRotated }

InitRot ==
    /\ dir_path \in [path : PodDirs, empty : BOOLEAN]
    /\ rotated_file_list \in Listings
    /\ dir_path.empty => rotated_file_list = <<>>
    /\ sorted_rotated_logs = [r |-> "unset", list |-> <<>>]
    /\ DurIdle /\ DirIdle /\ RunIdle /\ StatIdle /\ AggIdle /\ ErrIdle /\ MsgIdle /\ CliIdle

CallGetRotatedLogs ==
    /\ sorted_rotated_logs.r = "unset"
    /\ sorted_rotated_logs' = GetRotatedLogs(dir_path, rotated_file_list)
    /\ UNCHANGED <<dir_path, rotated_file_list, durVars, dirVars, runVars, statVars, aggVars, errVars, msgVars, cliVars>>

NextRot == CallGetRotatedLogs

SpecRot == InitRot /\ [][NextRot]_vars

\* the timestamp embedded in a file name (datetime.min when there is none)
NameDatetime(name) == ExtractDatetime(name)

\* C3: for any directory-listing order the returned file list is ascending
\* by the timestamp embedded in each file name, and every file whose name
\* has no timestamp comes before all files whose name has one; the order
\* depends on the file name only, not on the rest of the path.
RotatedOrderedByName ==
    sorted_rotated_logs.r = "list" =>
        \A i \in 1..Len(sorted_rotated_logs.list) :
            \A j \in (i + 1)..Len(sorted_rotated_logs.list) :
                ~DatetimeBefore(NameDatetime(FileName(sorted_rotated_logs.list[j])),
                                NameDatetime(FileName(sorted_rotated_logs.list[i])))

-----------------------------------------------------------------------------
(* Log lines.  A line is described by what was written to it and rendered  *)
(* to chunks; the code sees the rendered line only.                        *)

\* error_txt of the run
ErrorTxt == "apply request took too long"

JsonKeys == {"ts", "msg", "took", "expected-duration"}

Dates == {"2023-08-30", "2023-08-31"}

TwoDigits == {"00", "05", "10"}

Whitespace == {" ", "\n"}

\* "2023-08-30T10:05:00.123Z" or, without fraction, "2023-08-30T10:05:00Z"
RenderTs(ts) ==
    <<ts.date, "T", "10", ":", ts.mm, ":", "00">>
        \o (IF ts.frac THEN <<".", "123">> ELSE <<>>) \o <<"Z">>

RECURSIVE JoinFields(_)
JoinFields(fs) ==
    IF fs = <<>> THEN <<>>
    ELSE IF Len(fs) = 1 THEN fs[1]
    ELSE fs[1] \o <<",">> \o JoinFields(Tail(fs))

\* the fields of the payload, in the order etcd writes them
PayloadFields(d) ==
    (IF "ts" \in d.keys THEN << <<"ts">> \o RenderTs(d.ts) >> ELSE <<>>)
    \o (IF "msg" \in d.keys THEN << <<"msg", ErrorTxt>> >> ELSE <<>>)
    \o (IF "took" \in d.keys THEN << <<"took">> \o RenderTook(d.took) >> ELSE <<>>)
    \o (IF "expected-duration" \in d.keys
        THEN << <<"expected-duration", "1", "0", "0", "m", "s">> >> ELSE <<>>)

RenderPayload(d) ==
    CASE d.payload = "object" -> <<"{">> \o JoinFields(PayloadFields(d)) \o <<"}">>
      [] d.payload = "two"    -> <<"{">> \o JoinFields(PayloadFields(d)) \o <<"}", " ", "{", "}">>
      [] d.payload = "open"   -> <<"{">> \o JoinFields(PayloadFields(d))
      [] OTHER                -> <<>>

RenderLine(d) ==
    (IF d.prefix
     THEN <<"2023-08-30", "T", "10", ":", "00", ":", "00", ".", "123", "Z", " ">>
     ELSE <<>>)
    \o d.text \o RenderPayload(d) \o <<"\n">>

\* what the description says of the line
Matches(d) ==
    \/ \E i \in 1..Len(d.text) : d.text[i] = ErrorTxt
    \/ d.payload # "none" /\ "msg" \in d.keys

FullPayload(d) ==
    d.payload = "object" /\ {"took", "expected-duration", "ts"} \subseteq d.keys

\* the payload's 'ts' with fraction and trailing Z removed
TruthTs(d) == <<d.ts.date, "T", "10", ":", d.ts.mm, ":", "00">>

-----------------------------------------------------------------------------
(* extract_json_objects.                                                   *)

FirstIndex(s, c) == CHOOSE i \in 1..Len(s) : s[i] = c /\ \A k \in 1..(i - 1) : s[k] # c
LastIndex(s, c)  == CHOOSE i \in 1..Len(s) : s[i] = c /\ \A k \in (i + 1)..Len(s) : s[k] # c

\* json.loads(span) succeeds: "{", fields "key value..." separated by ",", "}"
JsonOk(span) ==
    LET inner == SubSeq(span, 2, Len(span) - 1)
    IN  \/ inner = <<>>
        \/ \A f \in {Split(inner, ",")[i] : i \in 1..Len(Split(inner, ","))} :
              /\ f # <<>>
              /\ f[1] \in JsonKeys
              /\ \A k \in 2..Len(f) : f[k] \notin JsonKeys \cup {"{", "}"}

\* the decoded object: a function from the keys present to their values
\* (of a repeated key the last value stands)
JsonLoads(span) ==
    LET inner  == SubSeq(span, 2, Len(span) - 1)
        fields == IF inner = <<>> THEN <<>> ELSE Split(inner, ",")
        keys   == {fields[i][1] : i \in 1..Len(fields)}
        last(k) == CHOOSE i \in 1..Len(fields) :
                       fields[i][1] = k /\ \A j \in (i + 1)..Len(fields) : fields[j][1] # k
    IN  [k \in keys |-> Tail(fields[last(k)])]

\* re.finditer(r"{.*}", text): the one greedy match runs from the first "{"
\* to the last "}" of the line; an undecodable match is skipped
ExtractJsonObjects(text) ==
    IF ~Contains(text, <<"{">>) \/ ~Contains(text, <<"}">>) THEN <<>>
    ELSE IF FirstIndex(text, "{") > LastIndex(text, "}") THEN <<>>
    ELSE LET span == SubSeq(text, FirstIndex(text, "{"), LastIndex(text, "}"))
         IN  IF JsonOk(span) THEN <<JsonLoads(span)>> ELSE <<>>

\* result.get(key, "Unknown")
Get(result, key) == IF key \in DOMAIN result THEN result[key] ELSE <<"Unknown">>

-----------------------------------------------------------------------------
(* The pods of a run.                                                      *)

PodNames == {"etcd-a", "etcd-b"}

\* the order of the pod names as strings
PodRank == ("etcd-a" :> 1) @@ ("etcd-b" :> 2)

\* sorted(directories, key=lambda d: get_etcd_pod(Path(d)))
RECURSIVE InsertByPod(_, _)
InsertByPod(x, s) ==
    IF s = <<>> THEN <<x>>
    ELSE IF PodRank[x] < PodRank[Head(s)] THEN <<x>> \o s
    ELSE <<Head(s)>> \o InsertByPod(x, Tail(s))

RECURSIVE SortByPod(_)
SortByPod(s) ==
    IF s = <<>> THEN <<>>
    ELSE InsertByPod(s[Len(s)], SortByPod(SubSeq(s, 1, Len(s) - 1)))

\* what get_dirs can hand over: the pods in any order
DirectoryLists ==
    UNION { { s \in [1..n -> PodNames] :
                \A i \in 1..n : \A j \in 1..n : i # j => s[i] # s[j] }
            : n \in 0..Cardinality(PodNames) }

MaxLines == 3

FileContents(lines) == UNION {[1..n -> lines] : n \in 0..MaxLines}

-----------------------------------------------------------------------------
(* The rotated logs of a pod as the aggregators read them.                 *)

\* mimetypes.guess_type(log)[0]: a trailing ".gz" is an encoding and is
\* taken off first; of the suffixes written here only ".txt" has a type
GuessType(log) ==
    LET base == RemoveSuffix(log, <<".", "gz">>)
    IN  IF Len(base) >= 2 /\ base[Len(base) - 1] = "." /\ base[Len(base)] = "txt"
        THEN "text/plain"
        ELSE "None"

\* a compressed file: read with encoding="utf-8" it does not decode
Gzipped(log) == RemoveSuffix(log, <<".", "gz">>) # log

MaxAggRotated == 1

AggRotatedNames ==
    { <<"0", ".", "log", ".", "20230829-235959">>,
      <<"0", ".", "log", ".", "20230830-000000", ".", "txt">>,
      <<"0", ".", "log", ".", "txt", ".", "gz">> }

\* listings: every order of up to MaxAggRotated distinct names
AggListings ==
    UNION { { s \in [1..n -> AggRotatedNames] :
                \A i \in 1..n : \A j \in 1..n : i # j => s[i] # s[j] }
            : n \in 0..MaxAggRotated }

\* the directory of a pod
PodPath(pod) == <<"/", "mg", "/", "pods", "/", pod>>

\* directory_path / "etcd" / "etcd" / "logs" / f"{pod_log_version}.log"
CurrentLog(pod) ==
    PodPath(pod) \o <<"/", "etcd", "/", "etcd", "/", "logs", "/", "current", ".", "log">>

\* Path(p).name
Basename(p) == Split(p, "/")[Len(Split(p, "/"))]

\* a path below the directory of the rotated logs
UnderRotated(p) == Contains(p, RotatedSubPath)

\* the lists get_rotated_logs can return for a pod
RotatedLogsLists(pod) ==
    { GetRotatedLogs([path |-> PodPath(pod), empty |-> FALSE], listing).list :
        listing \in AggListings }

-----------------------------------------------------------------------------
(* etcd_stats, calc_etcd_stats and print_stats.                            *)

\* re.findall(r"(\d{4}-\d{2}-\d{2}T\d{2}:\d{2}:\d{2})(?=\.\d+Z|\s|\Z)", line)
TimestampAt(line, i) ==
    /\ i + 6 <= Len(line)
    /\ line[i] \in Dates
    /\ line[i + 1] = "T"
    /\ line[i + 2] \in TwoDigits
    /\ line[i + 3] = ":"
    /\ line[i + 4] \in TwoDigits
    /\ line[i + 5] = ":"
    /\ line[i + 6] \in TwoDigits
    /\ \/ i + 6 = Len(line)
       \/ line[i + 7] \in Whitespace
       \/ /\ i + 9 <= Len(line)
          /\ line[i + 7] = "."
          /\ line[i + 8] = "123"
          /\ line[i + 9] = "Z"

RECURSIVE FindTimestamps(_, _)
FindTimestamps(line, i) ==
    IF i > Len(line) THEN <<>>
    ELSE IF TimestampAt(line, i)
         THEN <<SubSeq(line, i, i + 6)>> \o FindTimestamps(line, i + 7)
         ELSE FindTimestamps(line, i + 1)

\* s.rstrip("Z")
RECURSIVE RStripZ(_)
RStripZ(s) ==
    IF s # <<>> /\ s[Len(s)] = "Z" THEN RStripZ(SubSeq(s, 1, Len(s) - 1)) ELSE s

\* the timestamp stored with a sample
SampleTimestamp(result) ==
    LET timestamp == Get(result, "ts")
    IN  IF Contains(timestamp, <<"T">>)
        THEN IF Contains(timestamp, <<".">>)
             THEN Split(timestamp, ".")[1]
             ELSE RStripZ(timestamp)
        ELSE timestamp

\* the body of the for loop of calc_etcd_stats for one line: the exception
\* it raises ("none" when it raises none) and the locals when it ends
CalcLine(line) ==
    IF ~Contains(line, <<ErrorTxt>>)
    THEN [exc |-> "none", first_err |-> first_err, last_err |-> last_err,
          expected_time |-> expected_time, error_count |-> error_count,
          etcd_error_stats |-> etcd_error_stats]
    ELSE
      LET found   == [set |-> TRUE, list |-> FindTimestamps(line, 1)]
          counted == [exc |-> "none",
                      first_err |-> IF first_err.set THEN first_err ELSE found,
                      last_err |-> found,
                      expected_time |-> expected_time,
                      error_count |-> error_count + 1,
                      etcd_error_stats |-> etcd_error_stats]
          results == ExtractJsonObjects(line)
      IN  IF results = <<>> THEN counted
          ELSE LET result == results[1]
               IN  IF "took" \notin DOMAIN result
                   THEN [counted EXCEPT !.exc = "KeyError"]
                   ELSE IF "expected-duration" \notin DOMAIN result
                   THEN [counted EXCEPT !.exc = "KeyError"]
                   ELSE LET ms == StatsTookToMs(result["took"])
                            withExp == [counted EXCEPT
                                          !.expected_time = result["expected-duration"]]
                        IN  CASE ms.r = "ValueError" -> [withExp EXCEPT !.exc = "ValueError"]
                              [] ms.r = "none" -> withExp
                              [] OTHER -> [withExp EXCEPT !.etcd_error_stats =
                                    Append(etcd_error_stats,
                                           [ms |-> ms.val, ts |-> SampleTimestamp(result)])]

\* the samples in ascending order of value
RECURSIVE InsertValue(_, _)
InsertValue(x, s) ==
    IF s = <<>> THEN <<x>>
    ELSE IF x < Head(s) THEN <<x>> \o s
    ELSE <<Head(s)>> \o InsertValue(x, Tail(s))

RECURSIVE SortValues(_)
SortValues(s) ==
    IF s = <<>> THEN <<>>
    ELSE InsertValue(Head(s), SortValues(Tail(s)))

RECURSIVE Sum(_)
Sum(s) == IF s = <<>> THEN 0 ELSE Head(s) + Sum(Tail(s))

\* Printed numbers: f"{x:.4f}" of a value x in milliseconds is the integer
\* number of 0.0001 ms nearest to x.  A value in tenths is 1000 of these.
Fmt4(tenths) == tenths * 1000

\* statistics.median
MedianFmt4(values) ==
    LET s == SortValues(values)
        n == Len(s)
    IN  IF n % 2 = 1 THEN Fmt4(s[(n + 1) \div 2])
        ELSE (s[n \div 2] + s[n \div 2 + 1]) * 500

\* num / den to the nearest 0.0001 ms
DivFmt4(num, den) == (2 * Fmt4(num) + den) \div (2 * den)

\* A plausible slip: the mean, sum / len
AverageFmt4Mean(values) == DivFmt4(Sum(values), Len(values))

\* sum(values_only) / (len(values_only) + 1)
AverageFmt4(values) == DivFmt4(Sum(values), Len(values) + 1)

\* max(etcd_error_stats, key=lambda x: float(x[0])): the first largest entry
MaxEntry(stats) ==
    stats[CHOOSE i \in 1..Len(stats) :
              /\ \A j \in 1..Len(stats) : stats[j].ms <= stats[i].ms
              /\ \A j \in 1..(i - 1) : stats[j].ms < stats[i].ms]

MinValue(values) == SortValues(values)[1]

\* print_stats: what it prints (one block, as far as it gets) and the
\* exception it raises
PrintStats(pod, f_err, l_err, stats, count, expected, rotated) ==
    LET values_only == [i \in 1..Len(stats) |-> stats[i].ms]
        head == Header(pod, rotated)
    IN  IF ~f_err.set THEN [exc |-> "TypeError", block |-> head]
        ELSE IF f_err.list = <<>> THEN [exc |-> "IndexError", block |-> head]
        ELSE IF l_err.list = <<>>
        THEN [exc |-> "IndexError", block |-> [head EXCEPT !.stage = "first", !.first = f_err.list[1]]]
        ELSE LET occ == [head EXCEPT !.stage = "occurrences",
                                     !.first = f_err.list[1], !.last = l_err.list[1]]
             IN  IF stats = <<>> THEN [exc |-> "ValueError", block |-> occ]
                 ELSE [exc |-> "none",
                       block |-> [occ EXCEPT
                           !.stage = "complete",
                           !.max = Fmt4(MaxEntry(stats).ms),
                           !.maxts = MaxEntry(stats).ts,
                           !.min = Fmt4(MinValue(values_only)),
                           !.median = MedianFmt4(values_only),
                           !.average = AverageFmt4(values_only),
                           !.count = count,
                           !.expected = expected]]

\* the lines a log of the model is written from
Ms(n) == [shape |-> "ms", x |-> [int |-> n, frac |-> -1], y |-> Zero]

LineOf(prefix, text, payload, keys, mm, frac, took) ==
    [prefix |-> prefix, text |-> text, payload |-> payload, keys |-> keys,
     ts |-> [date |-> "2023-08-30", mm |-> mm, frac |-> frac], took |-> took]

StatsLines ==
    { LineOf(TRUE, <<"noise">>, "none", {}, "00", TRUE, Ms(0)),
      LineOf(TRUE, <<ErrorTxt>>, "none", {}, "00", TRUE, Ms(0)),
      LineOf(TRUE, <<>>, "two", JsonKeys, "00", TRUE, Ms(100)),
      LineOf(TRUE, <<>>, "object", JsonKeys \ {"took"}, "00", TRUE, Ms(0)),
      LineOf(FALSE, <<>>, "object", JsonKeys, "00", TRUE, Ms(100)),
      LineOf(FALSE, <<>>, "object", JsonKeys, "05", TRUE, Ms(200)),
      LineOf(FALSE, <<>>, "object", JsonKeys, "10", TRUE,
             [shape |-> "s", x |-> [int |-> 0, frac |-> 3], y |-> Zero]),
      LineOf(FALSE, <<ErrorTxt, " ">>, "object", JsonKeys \ {"msg"}, "00", FALSE, Ms(150)),
      LineOf(TRUE, <<>>, "object", JsonKeys, "00", TRUE,
             [shape |-> "other", x |-> [int |-> 5, frac |-> -1], y |-> Zero]) }

StatsContents == FileContents(StatsLines)

\* parse_file: error_txt in file_contents
ParseFile(content) ==
    \E i \in 1..Len(content) : Contains(RenderLine(content[i]), <<ErrorTxt>>)

StatsContentsWithText == {c \in StatsContents : ParseFile(c)}

\* What was written to a log: the durations and timestamps of the matching
\* lines that carry a duration of a recognized shape in a decodable payload
RECURSIVE TruthSamples(_)
TruthSamples(content) ==
    IF content = <<>> THEN <<>>
    ELSE (IF /\ Matches(Head(content))
             /\ Head(content).payload = "object"
             /\ {"took", "expected-duration"} \subseteq Head(content).keys
             /\ Head(content).took.shape # "other"
          THEN <<[ms |-> ShapeMs(Head(content).took),
                  ts |-> IF "ts" \in Head(content).keys
                         THEN TruthTs(Head(content)) ELSE <<"Unknown">>]>>
          ELSE <<>>) \o TruthSamples(Tail(content))

\* the number of matching lines, and whether each of them carries a
\* decodable payload with took, expected-duration and ts
Truth(pod, content) ==
    [pod |-> pod,
     k |-> Cardinality({i \in 1..Len(content) : Matches(content[i])}),
     full |-> \A i \in 1..Len(content) : Matches(content[i]) => FullPayload(content[i])]

InitStats ==
    /\ directories \in DirectoryLists
    /\ rotated_logs \in BOOLEAN
    /\ sorted_directories = <<>>
    /\ pod_i = 0
    /\ pc = "start"
    /\ file = <<>>
    /\ out = <<>>
    /\ last_block = NoBlock
    /\ exc = "none"
    /\ opened = <<>>
    /\ handles = <<>>
    /\ StatIdle
    /\ DurIdle /\ DirIdle /\ RotIdle /\ AggIdle /\ ErrIdle /\ MsgIdle /\ CliIdle

\* etcd_stats, up to the for loop
StatsBegin ==
    /\ opened' = <<>>
    /\ UNCHANGED handles
    /\ pc = "start"
    /\ sorted_directories' = SortByPod(directories)
    /\ pod_i' = 1
    /\ pc' = "pod"
    /\ UNCHANGED <<directories, rotated_logs, file, out, last_block, exc, statVars,
                   durVars, dirVars, rotVars, aggVars, errVars, msgVars, cliVars>>

\* A plausible slip: the file is opened without a with statement and an
\* exception leaves it open
LeftOpenOnException(h) == h

\* an exception leaves the block of a with statement: the file opened last
\* is closed
CloseOnException(h) == SubSeq(h, 1, Len(h) - 1)

\* the block of a with statement ends: the file opened last is closed
CloseAtEnd(h) == SubSeq(h, 1, Len(h) - 1)

\* an exception handled inside the loop: the loop goes on
RaiseSwallowed(e) ==
    /\ pc' = "pod"
    /\ exc' = e
    /\ file' = <<>>

\* an exception nothing in the aggregator handles: it leaves the function
Raise(e) ==
    /\ pc' = "raised"
    /\ exc' = e
    /\ file' = <<>>

\* signal_handler: the interrupt signal arrives while an aggregator runs.
\* The handler prints its message and sys.exit(0) ends the process, the
\* except clause of execute_command does not catch SystemExit; what was
\* printed before stays printed, the state of the process is gone.
ExitingMsg == [text |-> "Exiting etcd-ocp-diag..."]

Interrupt ==
    /\ pc \notin {"idle", "returned", "raised", "exited"}
    /\ pc' = "exited"
    /\ exc' = "SystemExit"
    /\ out' = Append(out, ExitingMsg)
    /\ directories' = <<>>
    /\ rotated_logs' = FALSE
    /\ sorted_directories' = <<>>
    /\ pod_i' = 0
    /\ file' = <<>>
    /\ last_block' = NoBlock
    /\ opened' = <<>>
    /\ handles' = <<>>
    /\ first_err' = None
    /\ last_err' = None
    /\ expected_time' = <<>>
    /\ error_count' = 0
    /\ etcd_error_stats' = <<>>
    /\ log_truth' = NoTruth
    /\ truth_samples' = <<>>
    /\ pod_known' = FALSE
    /\ etcd_pod_name' = ""
    /\ rotated_logs_list' = <<>>
    /\ log_i' = 0
    /\ etcd_count' = <<>>
    /\ line_count' = <<>>
    /\ err_date_search' = FALSE
    /\ compare_times' = FALSE
    /\ errors' = <<>>
    /\ json_dates' = <<>>
    /\ max_times' = {}
    /\ lines_left' = 0
    /\ counted_truth' = <<>>
    /\ UNCHANGED <<durVars, dirVars, rotVars, cliVars>>

\* one pass of the for loop up to the loop over the rotated logs
StatsPod ==
    /\ pc = "pod"
    /\ pod_i <= Len(sorted_directories)
    /\ opened' = <<>>
    /\ UNCHANGED handles
    /\ IF rotated_logs
       THEN /\ rotated_logs_list' \in RotatedLogsLists(sorted_directories[pod_i])
            /\ log_i' = 1
            /\ pc' = "rotated"
       ELSE /\ pc' = "current"
            /\ UNCHANGED <<rotated_logs_list, log_i>>
    /\ UNCHANGED <<directories, rotated_logs, sorted_directories, pod_i, file, out,
                   last_block, exc, pod_known, etcd_pod_name, statVars,
                   durVars, dirVars, rotVars, errVars, msgVars, cliVars>>

\* One rotated log: parse_file opens and reads it; when it holds the text
\* it is opened again for calc_etcd_stats with log.open, log being a str.
StatsRotatedLog ==
    /\ pc = "rotated"
    /\ log_i <= Len(rotated_logs_list)
    /\ opened' = rotated_logs_list[log_i]
    /\ handles' = IF Gzipped(rotated_logs_list[log_i])
                  THEN CloseOnException(Append(handles, rotated_logs_list[log_i]))
                  ELSE CloseAtEnd(Append(handles, rotated_logs_list[log_i]))
    /\ IF Gzipped(rotated_logs_list[log_i])
       THEN /\ Raise("UnicodeDecodeError")
            /\ UNCHANGED log_i
            /\ UNCHANGED log_truth
       ELSE \E content \in StatsContents :
               IF ParseFile(content)
               THEN /\ Raise("AttributeError")
                    /\ log_truth' = Truth(sorted_directories[pod_i], content)
                    /\ UNCHANGED log_i
               ELSE /\ log_i' = log_i + 1
                    /\ UNCHANGED <<pc, exc, file, log_truth>>
    /\ UNCHANGED <<directories, rotated_logs, sorted_directories, pod_i, out, last_block,
                   pod_known, etcd_pod_name, rotated_logs_list,
                   first_err, last_err, expected_time, error_count, etcd_error_stats,
                   truth_samples, durVars, dirVars, rotVars, errVars, msgVars, cliVars>>

\* The current (or previous) log of the pod: parse_file reads it, and it is
\* opened for calc_etcd_stats when it holds the text.
StatsCurrentLog ==
    /\ \/ pc = "current"
       \/ pc = "rotated" /\ log_i > Len(rotated_logs_list)
    /\ rotated_logs_list' = <<>>
    /\ log_i' = 0
    /\ LET pod == sorted_directories[pod_i]
       IN  \/ /\ Raise("FileNotFoundError")
              /\ opened' = <<>>
              /\ UNCHANGED handles
              /\ UNCHANGED <<pod_i, out, statVars>>
           \/ \E content \in StatsContents :
                 /\ opened' = CurrentLog(pod)
                 /\ handles' = IF content \in StatsContentsWithText
                               THEN Append(CloseAtEnd(Append(handles, CurrentLog(pod))),
                                           CurrentLog(pod))
                               ELSE CloseAtEnd(Append(handles, CurrentLog(pod)))
                 /\ IF content \in StatsContentsWithText
                    THEN /\ pc' = "scan"
                         /\ file' = content
                         /\ first_err' = None
                         /\ last_err' = None
                         /\ expected_time' = <<>>
                         /\ error_count' = 0
                         /\ etcd_error_stats' = <<>>
                         /\ log_truth' = Truth(pod, content)
                         /\ truth_samples' = TruthSamples(content)
                         /\ UNCHANGED <<pod_i, out, exc>>
                    ELSE /\ pod_i' = pod_i + 1
                         /\ pc' = "pod"
                         /\ UNCHANGED <<file, out, exc, statVars>>
    /\ UNCHANGED <<directories, rotated_logs, sorted_directories, last_block,
                   pod_known, etcd_pod_name,
                   durVars, dirVars, rotVars, errVars, msgVars, cliVars>>

\* calc_etcd_stats: one line of the file
StatsCalcLine ==
    /\ opened' = <<>>
    /\ pc = "scan"
    /\ file # <<>>
    /\ \E r \in {CalcLine(RenderLine(Head(file)))} :
           /\ first_err' = r.first_err
           /\ last_err' = r.last_err
           /\ expected_time' = r.expected_time
           /\ error_count' = r.error_count
           /\ etcd_error_stats' = r.etcd_error_stats
           /\ IF r.exc = "none"
              THEN /\ file' = Tail(file)
                   /\ UNCHANGED <<pc, exc, handles>>
              ELSE /\ Raise(r.exc)
                   /\ handles' = CloseOnException(handles)
    /\ UNCHANGED <<directories, rotated_logs, sorted_directories, pod_i, out, last_block,
                   log_truth, truth_samples, durVars, dirVars, rotVars, aggVars, errVars, msgVars, cliVars>>

\* calc_etcd_stats at the end of the file: print_stats
StatsPrint ==
    /\ opened' = <<>>
    /\ pc = "scan"
    /\ file = <<>>
    /\ \E r \in {PrintStats(sorted_directories[pod_i], first_err, last_err,
                            etcd_error_stats, error_count, expected_time, FALSE)} :
           /\ out' = Append(out, [pod |-> r.block.pod, rotated |-> r.block.rotated,
                                   stage |-> r.block.stage])
           /\ last_block' = r.block
           /\ IF r.exc = "none"
              THEN /\ pc' = "printed"
                   /\ handles' = CloseAtEnd(handles)
                   /\ UNCHANGED <<exc, file>>
              ELSE /\ Raise(r.exc)
                   /\ handles' = CloseOnException(handles)
    /\ UNCHANGED <<directories, rotated_logs, sorted_directories, pod_i, statVars,
                   durVars, dirVars, rotVars, aggVars, errVars, msgVars, cliVars>>

\* calc_etcd_stats returns, the file is closed, the for loop goes on
StatsNextPod ==
    /\ opened' = <<>>
    /\ UNCHANGED handles
    /\ pc = "printed"
    /\ pc' = "pod"
    /\ pod_i' = pod_i + 1
    /\ last_block' = NoBlock
    /\ first_err' = None
    /\ last_err' = None
    /\ expected_time' = <<>>
    /\ error_count' = 0
    /\ etcd_error_stats' = <<>>
    /\ log_truth' = NoTruth
    /\ truth_samples' = <<>>
    /\ UNCHANGED <<directories, rotated_logs, sorted_directories, file, out, exc,
                   durVars, dirVars, rotVars, aggVars, errVars, msgVars, cliVars>>

\* the for loop is over
StatsReturn ==
    /\ opened' = <<>>
    /\ UNCHANGED handles
    /\ pc = "pod"
    /\ pod_i > Len(sorted_directories)
    /\ pc' = "returned"
    /\ UNCHANGED <<directories, rotated_logs, sorted_directories, pod_i, file, out,
                   last_block, exc, statVars, durVars, dirVars, rotVars, aggVars, errVars, msgVars, cliVars>>

NextStats ==
    \/ StatsBegin \/ StatsPod \/ StatsRotatedLog \/ StatsCurrentLog
    \/ StatsCalcLine \/ StatsPrint \/ StatsNextPod \/ StatsReturn
    \/ Interrupt

SpecStats == InitStats /\ [][NextStats]_vars

-----------------------------------------------------------------------------
(* Properties of the statistics pass.                                      *)

TruthValues == [i \in 1..Len(truth_samples) |-> truth_samples[i].ms]

Abs(x) == IF x < 0 THEN -x ELSE x

\* C5: for a result block with n >= 1 duration samples the printed Average
\* equals sum(samples) / (n + 1), not sum(samples) / n (as printed: the
\* number of 0.0001 ms nearest to it).
AverageDividesByCountPlusOne ==
    last_block.stage = "complete" =>
        LET n == Len(truth_samples)
            s == Fmt4(Sum(TruthValues))
        IN  /\ n >= 1
            /\ 2 * Abs(last_block.average * (n + 1) - s) <= n + 1

\* the samples 100 ms, 200 ms, 300 ms were read and the Average printed is
\* 150.0000 ms
AverageWitness ==
    /\ last_block.stage = "complete"
    /\ TruthValues = <<1000, 2000, 3000>>
    /\ last_block.average = 1500000

\* the first sample written to the log with the largest duration
TruthMax ==
    truth_samples[CHOOSE i \in 1..Len(truth_samples) :
        /\ \A j \in 1..Len(truth_samples) : truth_samples[j].ms <= truth_samples[i].ms
        /\ \A j \in 1..(i - 1) : truth_samples[j].ms < truth_samples[i].ms]

BlocksOf(pod) == {i \in 1..Len(out) : out[i].pod = pod /\ ~out[i].rotated}

\* C6: for each pod whose current log holds k lines matching the target
\* pattern, every one carrying a decodable payload with 'took',
\* 'expected-duration' and 'ts', exactly one result block is printed for
\* that pod, with Count = k, Minimum and Maximum the smallest and largest
\* sample, Maximum paired with the 'ts' of its line, and Median the median
\* of the samples; pods are reported in ascending pod-name order.
StatsEndToEnd ==
    /\ (/\ pc \in {"printed", "raised"}
        /\ ~UnderRotated(opened)
        /\ log_truth.k >= 1
        /\ log_truth.full) =>
          /\ Cardinality(BlocksOf(log_truth.pod)) = 1
          /\ last_block.pod = log_truth.pod
          /\ last_block.stage = "complete"
          /\ last_block.count = log_truth.k
          /\ last_block.min = Fmt4(MinValue(TruthValues))
          /\ last_block.max = Fmt4(TruthMax.ms)
          /\ last_block.maxts = TruthMax.ts
          /\ last_block.median = MedianFmt4(TruthValues)
    /\ \A i \in 1..Len(out) : \A j \in (i + 1)..Len(out) :
          PodRank[out[i].pod] < PodRank[out[j].pod]

\* a matching line that yields no sample: no payload, a payload that does
\* not decode, or a payload without 'took'
YieldsNoSample(d) ==
    /\ Matches(d)
    /\ \/ d.payload \in {"none", "open", "two"}
       \/ "took" \notin d.keys

\* C7: at every point of a file scan the match count is >= the number of
\* collected samples; a matching line whose payload is absent, does not
\* decode, or decodes without 'took' increments the count, adds no sample,
\* and does not stop the scan of the following lines.
StatsCountCoversSamples ==
    /\ [](error_count >= Len(etcd_error_stats))
    /\ [][(pc = "scan" /\ file # <<>> /\ YieldsNoSample(Head(file))) =>
            /\ error_count' = error_count + 1
            /\ etcd_error_stats' = etcd_error_stats
            /\ pc' = "scan"
            /\ file' = Tail(file)]_vars

\* C8: when a file holds matching lines but none yields a sample, the
\* condition is detected and reported; print_stats never reaches a
\* min/max/median reduction over an empty sample list, and the pods that
\* follow are still processed.
StatsEmptySamplesHandled ==
    (pc \in {"printed", "raised"} /\ last_block.stage # "none" /\ etcd_error_stats = <<>>) =>
        /\ exc = "none"
        /\ pc = "printed"


-----------------------------------------------------------------------------
(* etcd_errors.                                                            *)

etcd_error_list ==
    << "waiting for ReadIndex response took too long, retrying",
       "etcdserver: request timed out",
       "slow fdatasync",
       "apply request took too long",
       "leader is overloaded likely from slow disk",
       "local node might have slow network",
       "elected leader",
       "lost leader",
       "wal: sync duration",
       "the clock difference against peer",
       "lease not found",
       "rafthttp: failed to read",
       "server is likely overloaded",
       "lost the tcp streaming",
       "sending buffer is full",
       "health errors",
       "request stats" >>

ErrorTexts == {etcd_error_list[i] : i \in 1..Len(etcd_error_list)}

\* the lines a log of the model is written from
ErrLines ==
    { <<"noise">>,
      <<"lost leader">>,
      <<"lost leader", " ", "lost leader">>,
      <<"elected leader", " ", "noise">> }

MaxErrLines == 2

ErrContents == UNION {[1..n -> ErrLines] : n \in 0..MaxErrLines}

\* file.read(): the lines, each ended by a line break
RECURSIVE FileText(_)
FileText(lines) ==
    IF lines = <<>> THEN <<>>
    ELSE Head(lines) \o <<"\n">> \o FileText(Tail(lines))

HasKey(counts, pod, error_text) ==
    \E k \in 1..Len(counts) : counts[k].pod = pod /\ counts[k].error = error_text

\* the loop over etcd_error_list from its i-th entry on, for one content
RECURSIVE CountErrors(_, _, _, _)
CountErrors(content, pod, counts, i) ==
    IF i > Len(etcd_error_list) THEN counts
    ELSE LET error_text == etcd_error_list[i]
             count == Count(content, error_text)
         IN  CountErrors(content, pod,
                 IF count > 0
                 THEN IF HasKey(counts, pod, error_text)
                      THEN [k \in 1..Len(counts) |->
                              IF counts[k].pod = pod /\ counts[k].error = error_text
                              THEN [counts[k] EXCEPT !.count = @ + count]
                              ELSE counts[k]]
                      ELSE Append(counts, [pod |-> pod, error |-> error_text, count |-> count])
                 ELSE counts,
                 i + 1)

\* errors_list.sort(key=lambda x: x["POD"]): Python's sort is stable
RECURSIVE InsertRowByPod(_, _)
InsertRowByPod(x, s) ==
    IF s = <<>> THEN <<x>>
    ELSE IF PodRank[x.POD] < PodRank[Head(s).POD] THEN <<x>> \o s
    ELSE <<Head(s)>> \o InsertRowByPod(x, Tail(s))

RECURSIVE SortRowsByPod(_)
SortRowsByPod(s) ==
    IF s = <<>> THEN <<>>
    ELSE InsertRowByPod(s[Len(s)], SortRowsByPod(SubSeq(s, 1, Len(s) - 1)))

\* print_rows: the header, made of the keys of the first row, then the rows
PrintRows(errors_list) ==
    << [header |-> DOMAIN errors_list[1]] >> \o errors_list

\* the lines of a file that contain the error, added to the lines read of pod
LinesRead(lines, pod, lc) ==
    [key \in DOMAIN lc |->
        IF key[1] = pod
        THEN lc[key] + Cardinality({i \in 1..Len(lines) : Contains(lines[i], <<key[2]>>)})
        ELSE lc[key]]

InitErr ==
    /\ directories \in DirectoryLists
    /\ rotated_logs \in BOOLEAN
    /\ pod_known \in BOOLEAN
    /\ etcd_pod_name \in (IF pod_known THEN PodNames ELSE {""})
    /\ pod_known => directories \in {<<>>, <<etcd_pod_name>>}
    /\ sorted_directories = <<>>
    /\ pod_i = 0
    /\ pc = "start"
    /\ file = <<>>
    /\ out = <<>>
    /\ last_block = NoBlock
    /\ exc = "none"
    /\ opened = <<>>
    /\ handles = <<>>
    /\ rotated_logs_list = <<>>
    /\ log_i = 0
    /\ etcd_count = <<>>
    /\ line_count = [key \in PodNames \X ErrorTexts |-> 0]
    /\ DurIdle /\ DirIdle /\ RotIdle /\ StatIdle /\ MsgIdle /\ CliIdle

\* etcd_errors, up to the for loop
ErrBegin ==
    /\ opened' = <<>>
    /\ UNCHANGED handles
    /\ pc = "start"
    /\ sorted_directories' = SortByPod(directories)
    /\ pod_i' = 1
    /\ pc' = "pod"
    /\ UNCHANGED <<directories, rotated_logs, file, out, last_block, exc, aggVars, errVars,
                   durVars, dirVars, rotVars, statVars, msgVars, cliVars>>

\* one pass of the for loop up to the loop over the rotated logs
ErrPod ==
    /\ opened' = <<>>
    /\ UNCHANGED handles
    /\ pc = "pod"
    /\ pod_i <= Len(sorted_directories)
    /\ etcd_pod_name' = IF pod_known THEN etcd_pod_name ELSE sorted_directories[pod_i]
    /\ IF rotated_logs
       THEN /\ rotated_logs_list' \in RotatedLogsLists(sorted_directories[pod_i])
            /\ log_i' = 1
            /\ pc' = "rotated"
       ELSE /\ pc' = "current"
            /\ UNCHANGED <<rotated_logs_list, log_i>>
    /\ UNCHANGED <<directories, rotated_logs, sorted_directories, pod_i, file, out,
                   last_block, exc, pod_known, errVars,
                   durVars, dirVars, rotVars, statVars, msgVars, cliVars>>

\* one rotated log: read and counted when its type is text/plain
ErrRotatedLog ==
    /\ pc = "rotated"
    /\ log_i <= Len(rotated_logs_list)
    /\ opened' = IF GuessType(rotated_logs_list[log_i]) = "text/plain"
                 THEN rotated_logs_list[log_i] ELSE <<>>
    /\ handles' = IF GuessType(rotated_logs_list[log_i]) # "text/plain" THEN handles
                  ELSE IF Gzipped(rotated_logs_list[log_i])
                  THEN CloseOnException(Append(handles, rotated_logs_list[log_i]))
                  ELSE CloseAtEnd(Append(handles, rotated_logs_list[log_i]))
    /\ LET log == rotated_logs_list[log_i]
       IN  IF GuessType(log) = "text/plain"
           THEN IF Gzipped(log)
                THEN /\ Raise("UnicodeDecodeError")
                     /\ UNCHANGED <<log_i, errVars>>
                ELSE \E lines \in ErrContents :
                        /\ etcd_count' = CountErrors(FileText(lines), etcd_pod_name, etcd_count, 1)
                        /\ line_count' = LinesRead(lines, etcd_pod_name, line_count)
                        /\ log_i' = log_i + 1
                        /\ UNCHANGED <<pc, exc, file>>
           ELSE /\ log_i' = log_i + 1
                /\ UNCHANGED <<pc, exc, file, errVars>>
    /\ UNCHANGED <<directories, rotated_logs, sorted_directories, pod_i, out, last_block,
                   pod_known, etcd_pod_name, rotated_logs_list,
                   durVars, dirVars, rotVars, statVars, msgVars, cliVars>>

\* the current (or previous) log of the pod
ErrCurrentLog ==
    /\ \/ pc = "current"
       \/ pc = "rotated" /\ log_i > Len(rotated_logs_list)
    /\ \/ /\ Raise("FileNotFoundError")
          /\ opened' = <<>>
          /\ UNCHANGED handles
          /\ UNCHANGED <<pod_i, errVars>>
       \/ \E lines \in ErrContents :
             /\ opened' = CurrentLog(sorted_directories[pod_i])
             /\ handles' = CloseAtEnd(Append(handles, CurrentLog(sorted_directories[pod_i])))
             /\ etcd_count' = CountErrors(FileText(lines), etcd_pod_name, etcd_count, 1)
             /\ line_count' = LinesRead(lines, etcd_pod_name, line_count)
             /\ pod_i' = pod_i + 1
             /\ pc' = "pod"
             /\ UNCHANGED <<exc, file>>
    /\ rotated_logs_list' = <<>>
    /\ log_i' = 0
    /\ UNCHANGED <<directories, rotated_logs, sorted_directories, out, last_block,
                   pod_known, etcd_pod_name,
                   durVars, dirVars, rotVars, statVars, msgVars, cliVars>>

\* after the for loop: the table, or the notice that there is none
ErrPrint ==
    /\ opened' = <<>>
    /\ UNCHANGED handles
    /\ pc = "pod"
    /\ pod_i > Len(sorted_directories)
    /\ out' = IF Len(etcd_count) # 0
              THEN PrintRows(SortRowsByPod(
                       [k \in 1..Len(etcd_count) |->
                           [POD |-> etcd_count[k].pod, ERROR |-> etcd_count[k].error,
                            COUNT |-> etcd_count[k].count]]))
              ELSE << [text |-> "No errors found."] >>
    /\ pc' = "returned"
    /\ UNCHANGED <<directories, rotated_logs, sorted_directories, pod_i, file, last_block,
                   exc, aggVars, errVars, durVars, dirVars, rotVars, statVars, msgVars, cliVars>>

NextErr == ErrBegin \/ ErrPod \/ ErrRotatedLog \/ ErrCurrentLog \/ ErrPrint \/ Interrupt

SpecErr == InitErr /\ [][NextErr]_vars

\* the rows of the table printed
RowsPrinted == IF out # <<>> /\ "header" \in DOMAIN out[1] THEN Tail(out) ELSE <<>>

\* C1: for every pod P and every catalog pattern E, the COUNT reported for
\* (P, E) equals the number of lines read from P's files that contain E as
\* a substring (a line that contains E more than once contributes 1); a
\* pair with no such line has no row.
ErrCountIsLineCount ==
    pc = "returned" =>
        \A key \in DOMAIN line_count :
            LET rows == {k \in 1..Len(RowsPrinted) :
                            RowsPrinted[k].POD = key[1] /\ RowsPrinted[k].ERROR = key[2]}
            IN  IF line_count[key] = 0
                THEN rows = {}
                ELSE /\ Cardinality(rows) = 1
                     /\ \A k \in rows : RowsPrinted[k].COUNT = line_count[key]


-----------------------------------------------------------------------------
(* msg_count and compare.                                                  *)

\* err_date of a run with a date
ErrDate == "2023-08-30"

\* the lines a log of the model is written from
MsgLines ==
    { LineOf(TRUE, <<"noise">>, "none", {}, "00", TRUE, Ms(0)),
      LineOf(TRUE, <<>>, "open", JsonKeys, "00", TRUE, Ms(100)),
      LineOf(TRUE, <<>>, "object", JsonKeys, "00", TRUE, Ms(100)),
      LineOf(TRUE, <<>>, "object", JsonKeys \ {"ts"}, "00", TRUE, Ms(100)),
      LineOf(TRUE, <<>>, "object", JsonKeys \ {"took"}, "00", TRUE, Ms(0)),
      [LineOf(TRUE, <<>>, "object", JsonKeys, "00", TRUE,
              [shape |-> "s", x |-> [int |-> 0, frac |-> 5], y |-> Zero])
          EXCEPT !.ts.date = "2023-08-31"],
      [LineOf(FALSE, <<>>, "object", JsonKeys, "05", TRUE, Ms(200))
          EXCEPT !.ts.date = "2023-08-31"] }

\* the logs of a run hold at most MaxMsgLines lines in all
MaxMsgLines == 3

MsgContents(most) == UNION {[1..n -> MsgLines] : n \in 0..most}

\* json_dates[key]
KeyCount(jd, key) ==
    IF \E k \in 1..Len(jd) : jd[k].key = key
    THEN jd[CHOOSE k \in 1..Len(jd) : jd[k].key = key].count
    ELSE 0

\* json_dates[key] += 1
Increment(jd, key) ==
    IF \E k \in 1..Len(jd) : jd[k].key = key
    THEN [k \in 1..Len(jd) |-> IF jd[k].key = key THEN [jd[k] EXCEPT !.count = @ + 1] ELSE jd[k]]
    ELSE Append(jd, [key |-> key, count |-> 1])

HasMax(mt, key) == \E m \in mt : m.key = key

MaxTime(mt, key) == (CHOOSE m \in mt : m.key = key).ms

\* A plausible slip: the duration seen last replaces the one kept
TrackMaxLast(mt, key, took_value) ==
    {m \in mt : m.key # key} \cup {[key |-> key, ms |-> took_value]}

\* if time_key not in max_times or took_value > max_times[time_key]: ...
TrackMax(mt, key, took_value) ==
    IF ~HasMax(mt, key) THEN mt \cup {[key |-> key, ms |-> took_value]}
    ELSE IF took_value > MaxTime(mt, key)
         THEN {m \in mt : m.key # key} \cup {[key |-> key, ms |-> took_value]}
         ELSE mt

\* the body of the for loop over the lines of a file, with a date given:
\* the exception it raises ("none" when none) and the two dicts when it ends
CountLineOfDate(line, jd, mt) ==
    LET same == [exc |-> "none", json_dates |-> jd, max_times |-> mt]
    IN  IF ~Contains(line, <<ErrorTxt>>) \/ ~Contains(line, <<ErrDate>>) THEN same
        ELSE IF ExtractJsonObjects(line) = <<>> THEN same
        ELSE LET result == ExtractJsonObjects(line)[1]
                 parts  == Split(Get(result, "ts"), "T")
             IN  IF Len(parts) # 2 THEN [same EXCEPT !.exc = "ValueError"]
                 ELSE IF Len(Split(parts[2], ":")) # 3 THEN [same EXCEPT !.exc = "ValueError"]
                 ELSE LET hr == Split(parts[2], ":")[1]
                          minute == Split(parts[2], ":")[2]
                          time_key == hr \o <<":">> \o minute
                          counted == [same EXCEPT !.json_dates = Increment(jd, time_key)]
                      IN  IF "took" \notin DOMAIN result THEN counted
                          ELSE LET took_value == ConvertTookToMs(result["took"])
                               IN  IF took_value.r = "ValueError"
                                   THEN [counted EXCEPT !.exc = "ValueError"]
                                   ELSE [counted EXCEPT
                                           !.max_times = TrackMax(mt, time_key, took_value.val)]

\* the body of the for loop over the lines of a file, with no date given
CountLineOfDay(line, jd, mt) ==
    LET same == [exc |-> "none", json_dates |-> jd, max_times |-> mt]
    IN  IF ~Contains(line, <<ErrorTxt>>) THEN same
        ELSE IF ExtractJsonObjects(line) = <<>> THEN same
        ELSE LET parts == Split(Get(ExtractJsonObjects(line)[1], "ts"), "T")
             IN  IF Len(parts) # 2 THEN [same EXCEPT !.exc = "ValueError"]
                 ELSE [same EXCEPT !.json_dates = Increment(jd, parts[1])]

\* for date, count in json_dates.items(): errors.append(...)
Rows(pod, jd, mt, date_search) ==
    [k \in 1..Len(jd) |->
        IF date_search /\ HasMax(mt, jd[k].key)
        THEN [POD |-> pod, DATE |-> jd[k].key, COUNT |-> jd[k].count,
              MAX_TIME |-> Fmt4(MaxTime(mt, jd[k].key))]
        ELSE [POD |-> pod, DATE |-> jd[k].key, COUNT |-> jd[k].count]]

\* compare: the rows grouped by DATE, in the order the dates first occur
RECURSIVE DateGroups(_, _)
DateGroups(errors_list, groups) ==
    IF errors_list = <<>> THEN groups
    ELSE LET entry == Head(errors_list)
         IN  DateGroups(Tail(errors_list),
                 IF \E g \in 1..Len(groups) : groups[g].date = entry.DATE
                 THEN [g \in 1..Len(groups) |->
                          IF groups[g].date = entry.DATE
                          THEN [groups[g] EXCEPT !.entries = Append(@, entry)]
                          ELSE groups[g]]
                 ELSE Append(groups, [date |-> entry.DATE, entries |-> <<entry>>]))

\* a row as compare prints it
CompareRow(entry, has_max_time) ==
    IF ~has_max_time THEN [POD |-> entry.POD, COUNT |-> entry.COUNT]
    ELSE [POD |-> entry.POD, COUNT |-> entry.COUNT,
          MAX_TIME |-> IF "MAX_TIME" \in DOMAIN entry
                       THEN [na |-> FALSE, val |-> entry.MAX_TIME]
                       ELSE [na |-> TRUE, val |-> 0]]

\* compare: what it prints, one block for each date with more than one row
Compare(errors_list) ==
    LET date_groups  == DateGroups(errors_list, <<>>)
        has_max_time == Len(errors_list) > 0 /\ "MAX_TIME" \in DOMAIN errors_list[1]
        printed      == SelectSeq(date_groups, LAMBDA g : Len(g.entries) > 1)
    IN  [g \in 1..Len(printed) |->
            [date |-> printed[g].date,
             columns |-> IF has_max_time THEN <<"POD", "COUNT", "MAX_TIME">>
                         ELSE <<"POD", "COUNT">>,
             entries |-> LET sorted_entries == SortRowsByPod(printed[g].entries)
                         IN  [k \in 1..Len(sorted_entries) |->
                                 CompareRow(sorted_entries[k], has_max_time)]]]

\* the payload of the line d is counted: the bucket of its timestamp (the
\* HH:MM with a date given, the calendar date with none) has one payload
\* more, and its duration (in tenths of a millisecond) is the largest of
\* the bucket if it is larger than those before; -1 stands for no duration
TruthCounted(c, d, date_search) ==
    LET key == IF date_search THEN <<"10", ":", d.ts.mm>> ELSE <<d.ts.date>>
        ms == IF "took" \in d.keys THEN ShapeMs(d.took) ELSE -1
    IN  IF \E k \in 1..Len(c) : c[k].key = key
        THEN [k \in 1..Len(c) |->
                 IF c[k].key = key
                 THEN [key |-> key, count |-> c[k].count + 1,
                       ms |-> IF ms > c[k].ms THEN ms ELSE c[k].ms]
                 ELSE c[k]]
        ELSE Append(c, [key |-> key, count |-> 1, ms |-> ms])

InitMsg ==
    /\ directories \in DirectoryLists
    /\ rotated_logs \in BOOLEAN
    /\ pod_known \in BOOLEAN
    /\ etcd_pod_name \in (IF pod_known THEN PodNames ELSE {""})
    /\ pod_known => directories \in {<<>>, <<etcd_pod_name>>}
    /\ err_date_search \in BOOLEAN
    /\ compare_times \in BOOLEAN
    /\ sorted_directories = <<>>
    /\ pod_i = 0
    /\ pc = "start"
    /\ file = <<>>
    /\ out = <<>>
    /\ last_block = NoBlock
    /\ exc = "none"
    /\ opened = <<>>
    /\ handles = <<>>
    /\ rotated_logs_list = <<>>
    /\ log_i = 0
    /\ errors = <<>>
    /\ json_dates = <<>>
    /\ max_times = {}
    /\ lines_left = MaxMsgLines
    /\ counted_truth = <<>>
    /\ DurIdle /\ DirIdle /\ RotIdle /\ StatIdle /\ ErrIdle /\ CliIdle

\* msg_count, up to the for loop
MsgBegin ==
    /\ opened' = <<>>
    /\ UNCHANGED handles
    /\ pc = "start"
    /\ sorted_directories' = SortByPod(directories)
    /\ pod_i' = 1
    /\ pc' = "pod"
    /\ UNCHANGED <<directories, rotated_logs, file, out, last_block, exc, aggVars, msgVars,
                   durVars, dirVars, rotVars, statVars, errVars, cliVars>>

\* one pass of the for loop up to the loop over the rotated logs
MsgPod ==
    /\ opened' = <<>>
    /\ UNCHANGED handles
    /\ pc = "pod"
    /\ pod_i <= Len(sorted_directories)
    /\ json_dates' = <<>>
    /\ max_times' = {}
    /\ counted_truth' = <<>>
    /\ etcd_pod_name' = IF pod_known THEN etcd_pod_name ELSE sorted_directories[pod_i]
    /\ IF rotated_logs
       THEN /\ rotated_logs_list' \in RotatedLogsLists(sorted_directories[pod_i])
            /\ log_i' = 1
            /\ pc' = "rotated"
       ELSE /\ pc' = "current"
            /\ UNCHANGED <<rotated_logs_list, log_i>>
    /\ UNCHANGED <<directories, rotated_logs, sorted_directories, pod_i, file, out,
                   last_block, exc, pod_known, err_date_search, compare_times, errors,
                   lines_left, durVars, dirVars, rotVars, statVars, errVars, cliVars>>

\* one rotated log: opened when its type is text/plain
MsgRotatedLog ==
    /\ pc = "rotated"
    /\ log_i <= Len(rotated_logs_list)
    /\ opened' = IF GuessType(rotated_logs_list[log_i]) = "text/plain"
                 THEN rotated_logs_list[log_i] ELSE <<>>
    /\ handles' = IF GuessType(rotated_logs_list[log_i]) # "text/plain" THEN handles
                  ELSE IF Gzipped(rotated_logs_list[log_i])
                  THEN CloseOnException(Append(handles, rotated_logs_list[log_i]))
                  ELSE Append(handles, rotated_logs_list[log_i])
    /\ LET log == rotated_logs_list[log_i]
       IN  IF GuessType(log) = "text/plain"
           THEN IF Gzipped(log)
                THEN /\ Raise("UnicodeDecodeError")
                     /\ UNCHANGED <<log_i, lines_left>>
                ELSE /\ file' \in MsgContents(lines_left)
                     /\ lines_left' = lines_left - Len(file')
                     /\ pc' = "rotated-scan"
                     /\ UNCHANGED <<exc, log_i>>
           ELSE /\ log_i' = log_i + 1
                /\ UNCHANGED <<pc, exc, file, lines_left>>
    /\ UNCHANGED <<directories, rotated_logs, sorted_directories, pod_i, out, last_block,
                   pod_known, etcd_pod_name, rotated_logs_list,
                   err_date_search, compare_times, errors, json_dates, max_times,
                   counted_truth,
                   durVars, dirVars, rotVars, statVars, errVars, cliVars>>

\* one line of the file being read
MsgLine ==
    /\ opened' = <<>>
    /\ pc \in {"rotated-scan", "current-scan"}
    /\ file # <<>>
    /\ \E r \in {IF err_date_search
                 THEN CountLineOfDate(RenderLine(Head(file)), json_dates, max_times)
                 ELSE CountLineOfDay(RenderLine(Head(file)), json_dates, max_times)} :
           /\ json_dates' = r.json_dates
           /\ max_times' = r.max_times
           /\ counted_truth' = IF r.exc = "none" /\ r.json_dates # json_dates
                               THEN TruthCounted(counted_truth, Head(file), err_date_search)
                               ELSE counted_truth
           /\ IF r.exc = "none"
              THEN /\ file' = Tail(file)
                   /\ UNCHANGED <<pc, exc, handles>>
              ELSE /\ Raise(r.exc)
                   /\ handles' = CloseOnException(handles)
    /\ UNCHANGED <<directories, rotated_logs, sorted_directories, pod_i, out, last_block,
                   aggVars, err_date_search, compare_times, errors, lines_left,
                   durVars, dirVars, rotVars, statVars, errVars, cliVars>>

\* the end of a rotated log: the next one
MsgRotatedEnd ==
    /\ opened' = <<>>
    /\ handles' = CloseAtEnd(handles)
    /\ pc = "rotated-scan"
    /\ file = <<>>
    /\ log_i' = log_i + 1
    /\ pc' = "rotated"
    /\ UNCHANGED <<directories, rotated_logs, sorted_directories, pod_i, file, out,
                   last_block, exc, pod_known, etcd_pod_name, rotated_logs_list, msgVars,
                   durVars, dirVars, rotVars, statVars, errVars, cliVars>>

\* after the rotated logs: their rows, when there were rotated logs
MsgRotatedRows ==
    /\ opened' = <<>>
    /\ UNCHANGED handles
    /\ pc = "rotated"
    /\ log_i > Len(rotated_logs_list)
    /\ IF rotated_logs_list # <<>>
       THEN /\ errors' = errors \o Rows(etcd_pod_name, json_dates, max_times, err_date_search)
            /\ json_dates' = <<>>
            /\ max_times' = {}
            /\ counted_truth' = <<>>
       ELSE UNCHANGED <<errors, json_dates, max_times, counted_truth>>
    /\ rotated_logs_list' = <<>>
    /\ log_i' = 0
    /\ pc' = "current"
    /\ UNCHANGED <<directories, rotated_logs, sorted_directories, pod_i, file, out,
                   last_block, exc, pod_known, etcd_pod_name, err_date_search,
                   compare_times, lines_left,
                   durVars, dirVars, rotVars, statVars, errVars, cliVars>>

\* the current (or previous) log of the pod is opened
MsgCurrentLog ==
    /\ pc = "current"
    /\ \/ /\ Raise("FileNotFoundError")
          /\ opened' = <<>>
          /\ UNCHANGED handles
          /\ UNCHANGED lines_left
       \/ /\ opened' = CurrentLog(sorted_directories[pod_i])
          /\ handles' = Append(handles, CurrentLog(sorted_directories[pod_i]))
          /\ file' \in MsgContents(lines_left)
          /\ lines_left' = lines_left - Len(file')
          /\ pc' = "current-scan"
          /\ UNCHANGED exc
    /\ UNCHANGED <<directories, rotated_logs, sorted_directories, pod_i, out, last_block,
                   aggVars, err_date_search, compare_times, errors, json_dates, max_times,
                   counted_truth,
                   durVars, dirVars, rotVars, statVars, errVars, cliVars>>

\* the end of the current log: its rows, and the next pod
MsgCurrentRows ==
    /\ opened' = <<>>
    /\ handles' = CloseAtEnd(handles)
    /\ pc = "current-scan"
    /\ file = <<>>
    /\ errors' = errors \o Rows(etcd_pod_name, json_dates, max_times, err_date_search)
    /\ json_dates' = <<>>
    /\ max_times' = {}
    /\ counted_truth' = <<>>
    /\ pod_i' = pod_i + 1
    /\ pc' = "pod"
    /\ UNCHANGED <<directories, rotated_logs, sorted_directories, file, out, last_block,
                   exc, aggVars, err_date_search, compare_times, lines_left,
                   durVars, dirVars, rotVars, statVars, errVars, cliVars>>

\* after the for loop: the comparison, the table, or the notice
MsgPrint ==
    /\ opened' = <<>>
    /\ UNCHANGED handles
    /\ pc = "pod"
    /\ pod_i > Len(sorted_directories)
    /\ out' = IF Len(errors) # 0
              THEN IF compare_times
                   THEN Compare(SortRowsByPod(errors))
                   ELSE PrintRows(SortRowsByPod(errors))
              ELSE << [text |-> "No errors for"] >>
    /\ pc' = "returned"
    /\ UNCHANGED <<directories, rotated_logs, sorted_directories, pod_i, file, last_block,
                   exc, aggVars, msgVars, durVars, dirVars, rotVars, statVars, errVars, cliVars>>

NextMsg ==
    \/ MsgBegin \/ MsgPod \/ MsgRotatedLog \/ MsgLine \/ MsgRotatedEnd
    \/ MsgRotatedRows \/ MsgCurrentLog \/ MsgCurrentRows \/ MsgPrint
    \/ Interrupt

SpecMsg == InitMsg /\ [][NextMsg]_vars

\* the blocks compare printed
BucketsPrinted == IF pc = "returned" /\ compare_times /\ Len(errors) # 0 THEN out ELSE <<>>

\* C2: a bucket is printed only if rows for it come from two or more
\* distinct pods (a bucket of a single pod is never printed, also when the
\* pod contributes a row from its rotated logs and one from its current
\* log); inside a printed bucket the rows are in ascending pod-name order.
CompareOnlyAcrossPods ==
    \A g \in 1..Len(BucketsPrinted) :
        LET entries == BucketsPrinted[g].entries
        IN  /\ Cardinality({entries[k].POD : k \in 1..Len(entries)}) >= 2
            /\ \A i \in 1..Len(entries) : \A j \in (i + 1)..Len(entries) :
                  PodRank[entries[i].POD] <= PodRank[entries[j].POD]

\* a matching line whose payload decodes and has no 'ts' (and, with a date
\* given, a line that holds the date)
MissingTs(d) ==
    /\ Matches(d)
    /\ d.payload = "object"
    /\ "ts" \notin d.keys
    /\ err_date_search => d.prefix

\* C9: a matching line whose decoded payload has no 'ts' field is counted
\* under the bucket "Unknown", with and without a date given, and the scan
\* continues with the next line.
MissingTsCountedUnknown ==
    [][(pc \in {"rotated-scan", "current-scan"} /\ file # <<>> /\ MissingTs(Head(file))) =>
          /\ KeyCount(json_dates', <<"Unknown">>) = KeyCount(json_dates, <<"Unknown">>) + 1
          /\ pc' = pc
          /\ file' = Tail(file)]_vars


-----------------------------------------------------------------------------
(* The rotated files the aggregators open.                                 *)

\* C11: in each aggregator a rotated file is opened only if its name
\* matches the numbered-rotation pattern, does not end in .gz and its
\* content type is plain text.
RotatedOpenedOnlyPlainText ==
    UnderRotated(opened) =>
        /\ RotatedPattern(Basename(opened))
        /\ ~Gzipped(opened)
        /\ GuessType(opened) = "text/plain"

\* C12: with rotated logs selected, a rotated file of a pod that holds the
\* target pattern yields a result block labelled as that pod's rotated
\* log, and the pass goes on.
StatsRotatedReported ==
    (UnderRotated(opened) /\ log_truth.k >= 1) =>
        /\ exc = "none"
        /\ last_block.rotated
        /\ last_block.pod = log_truth.pod
        /\ last_block.stage # "none"


\* C13: print_rows renders no table in which a data row has other columns
\* than the header; in particular the rows msg_count builds with a date
\* given, some with MAX_TIME and some without, are not rendered so.
PrintedRowsHaveHeaderColumns ==
    \A k \in 1..Len(RowsPrinted) : DOMAIN RowsPrinted[k] = out[1].header


-----------------------------------------------------------------------------
(* main and execute_command: one batch invocation.                         *)

\* the command lines of the model: --path absent, given as "" or given;
\* one operation or none; --previous; --rotated; --date absent, well
\* formed or malformed
CommandLines ==
    [path : {"absent", "empty", "given"},
     op : {"none", "ttl", "errors", "stats"},
     previous : BOOLEAN,
     rotated : BOOLEAN,
     date : {"absent", "valid", "malformed"}]

\* _validate_command_args
ValidateCommandArgs(a) ==
    IF a.path # "given" /\ a.op \notin {"errors", "stats"}
    THEN "ERROR: --path is required for most operations."
    ELSE IF a.previous /\ a.rotated
    THEN "ERROR: Please select either previous or rotated option."
    ELSE ""

\* _execute_operation: the message it prints and the aggregator it starts
ExecuteOperation(a) ==
    CASE a.op = "stats" ->
            IF a.path # "given"
            THEN [reported |-> "ERROR: --path is required for --stats", operation |-> "none"]
            ELSE [reported |-> "", operation |-> "etcd_stats"]
      [] a.op = "errors" ->
            IF a.path # "given"
            THEN [reported |-> "ERROR: --path is required for --errors", operation |-> "none"]
            ELSE [reported |-> "", operation |-> "etcd_errors"]
      [] a.op = "ttl" /\ a.path = "given" ->
            [reported |-> "", operation |-> "msg_count"]
      [] a.op = "none" ->
            [reported |-> "ERROR: Please specify an operation (--ttl, --heartbeat, --election, etc.)",
             operation |-> "none"]
      [] OTHER -> [reported |-> "", operation |-> "none"]

InitMain ==
    /\ args \in CommandLines
    /\ main_pc = "start"
    /\ reported = ""
    /\ operation = "none"
    /\ exit_status = -1
    /\ DurIdle /\ DirIdle /\ RotIdle /\ RunIdle /\ StatIdle /\ AggIdle /\ ErrIdle /\ MsgIdle
    /\ UiIdle

\* parser.parse_args(): a malformed --date and a missing --path end the
\* process with the usage message and status 2
ParseArgs ==
    /\ main_pc = "start"
    /\ IF args.date = "malformed"
       THEN /\ reported' = "argument --date: Date must be in YYYY-MM-DD format"
            /\ exit_status' = 2
            /\ main_pc' = "exited"
       ELSE IF args.path = "absent"
       THEN /\ reported' = "the following arguments are required: --path"
            /\ exit_status' = 2
            /\ main_pc' = "exited"
       ELSE /\ main_pc' = "parsed"
            /\ UNCHANGED <<reported, exit_status>>
    /\ UNCHANGED <<args, operation, durVars, dirVars, rotVars, runVars, statVars, aggVars,
                   errVars, msgVars, uiVars>>

\* execute_command: the validation, then the operation
ExecuteCommand ==
    /\ main_pc = "parsed"
    /\ IF ValidateCommandArgs(args) # ""
       THEN /\ reported' = ValidateCommandArgs(args)
            /\ UNCHANGED operation
       ELSE /\ reported' = ExecuteOperation(args).reported
            /\ operation' = ExecuteOperation(args).operation
    /\ main_pc' = "returned"
    /\ UNCHANGED <<args, exit_status, durVars, dirVars, rotVars, runVars, statVars, aggVars,
                   errVars, msgVars, uiVars>>

\* main returns: the interpreter exits with status 0
MainReturn ==
    /\ main_pc = "returned"
    /\ exit_status' = 0
    /\ main_pc' = "exited"
    /\ UNCHANGED <<args, reported, operation, durVars, dirVars, rotVars, runVars, statVars,
                   aggVars, errVars, msgVars, uiVars>>

NextMain == ParseArgs \/ ExecuteCommand \/ MainReturn

SpecMain == InitMain /\ [][NextMain]_vars

\* a missing required argument, both --previous and --rotated, or a
\* malformed --date
UsageError(a) ==
    \/ a.path = "absent"
    \/ a.previous /\ a.rotated
    \/ a.date = "malformed"

\* C14: a batch invocation with a usage error reports the error, starts no
\* aggregator (no log file is opened, no row is printed) and ends with a
\* non-zero exit status.
UsageErrorExitsNonZero ==
    (main_pc = "exited" /\ UsageError(args)) =>
        /\ reported # ""
        /\ operation = "none"
        /\ exit_status # 0


-----------------------------------------------------------------------------
(* A log file that cannot be opened.                                       *)

HasTable(o) == \E k \in 1..Len(o) : "header" \in DOMAIN o[k]

\* a step that ends with the failed open of a current/previous log raised:
\* it is the open itself, on a pod of the list, and nothing follows it
OpenFailureStep ==
    (exc' = "FileNotFoundError") =>
        /\ exc = "none"
        /\ pc' = "raised"
        /\ pod_i' = pod_i
        /\ pod_i \in 1..Len(sorted_directories)
        /\ ~HasTable(out')

\* C15: when the current/previous log of a pod cannot be opened the pod is
\* not skipped: the failure leaves the aggregator, no later pod is scanned
\* and no result table is printed.
OpenFailurePropagates == [][OpenFailureStep]_vars

\* the log of the first of two pods is absent, after its rotated logs
\* added rows to the tally
OpenFailureWitness ==
    /\ exc = "FileNotFoundError"
    /\ pod_i = 1
    /\ Len(sorted_directories) = 2
    /\ etcd_count # <<>>


-----------------------------------------------------------------------------
(* The interrupt signal.                                                   *)

\* the interrupt arrives while a log is being scanned
InterruptDuringScan ==
    (pc \in {"rotated", "current", "scan", "rotated-scan", "current-scan"}
        /\ pc' = "exited") =>
        /\ out = <<>>
        /\ out' = << ExitingMsg >>

\* C16: when the interrupt signal ends the process during a scan, no part
\* of a report has been printed: no row of the error tally or of the
\* time-bucketed counter, and no result block of the statistics pass.
InterruptLeavesNoReport == [][InterruptDuringScan]_vars


-----------------------------------------------------------------------------
(* The interactive mode: folder navigation and command mode.  A path is    *)
(* the sequence of its components, the root the empty sequence; a line     *)
(* typed at a prompt is the sequence of its words.                         *)

\* the directories of the file system, and Path.cwd()
Tree ==
    {<<>>, <<"work">>, <<"work", ".cache">>, <<"work", "mg">>, <<"work", "mg2">>,
     <<"work", "mg", "namespaces">>}

Cwd == <<"work">>

\* the names of the model in sorted order, and those that start with "."
SortedNames == <<".cache", "mg", "mg2", "namespaces", "work">>

HiddenNames == {".cache"}

\* Path(p).parent: the root is its own parent
Parent(p) == IF p = <<>> THEN p ELSE SubSeq(p, 1, Len(p) - 1)

\* list_directories
ListDirectories(path) ==
    SelectSeq(SortedNames, LAMBDA n : Append(path, n) \in Tree /\ n \notin HiddenNames)

\* show_navigation_screen: the options it returns
ShowNavigationScreen(cur, prev) ==
    LET directories_here == ListDirectories(cur)
    IN  [k \in 1..Len(directories_here) |->
            [type |-> "directory", name |-> directories_here[k], path |-> NoPath]]
        \o (IF prev # NoPath /\ prev # cur
            THEN << [type |-> "previous", name |-> "", path |-> prev] >>
            ELSE <<>>)

\* the end of the input instead of a line
Eof == << "<EOF>" >>

\* int(user_input) for the lines of the model; 0 stands for ValueError
IntOf(line) ==
    IF line = <<"1">> THEN 1
    ELSE IF line = <<"2">> THEN 2
    ELSE IF line = <<"3">> THEN 3
    ELSE 0

NavigationLines ==
    {<<>>, <<"exit">>, <<"quit">>, <<"help">>, <<"ls">>, <<"pwd">>, <<"..">>,
     <<"run", "commands">>, <<"commands">>, <<"1">>, <<"2">>, <<"3">>, <<"back">>, Eof}

\* one pass of the loop of folder_navigation_mode: what the function
\* returns, if it returns, and its locals after the pass
NavigationStep(line, cur, prev, opts) ==
    LET stay == [ret |-> "no", value |-> NoPath, cur |-> cur, prev |-> prev, opts |-> opts]
        moved(to, from) ==
            [ret |-> "no", value |-> NoPath, cur |-> to, prev |-> from,
             opts |-> ShowNavigationScreen(to, from)]
    IN  IF line = Eof THEN [stay EXCEPT !.ret = "yes"]
        ELSE IF line = <<>> THEN stay
        ELSE IF line \in {<<"exit">>, <<"quit">>} THEN [stay EXCEPT !.ret = "yes"]
        ELSE IF line = <<"help">> THEN stay
        ELSE IF line = <<"ls">> THEN [stay EXCEPT !.opts = ShowNavigationScreen(cur, prev)]
        ELSE IF line = <<"pwd">> THEN stay
        ELSE IF line = <<"..">>
        THEN IF Parent(cur) # cur THEN moved(Parent(cur), cur) ELSE stay
        ELSE IF line \in {<<"run", "commands">>, <<"commands">>}
        THEN [stay EXCEPT !.ret = "yes", !.value = cur]
        ELSE IF IntOf(line) = 0 THEN stay
        ELSE IF IntOf(line) \in 1..Len(opts)
        THEN LET option == opts[IntOf(line)]
             IN  IF option.type = "directory"
                 THEN IF Append(cur, option.name) \in Tree
                      THEN moved(Append(cur, option.name), cur)
                      ELSE stay
                 ELSE moved(option.path, cur)
        ELSE stay

\* the words command mode turns into options, and the options
ValueWords == {"path", "pod", "date"}

FlagWords == {"ttl", "compare", "errors", "stats", "previous", "rotated"}

Dashed(w) ==
    CASE w = "path" -> "--path"
      [] w = "pod" -> "--pod"
      [] w = "date" -> "--date"
      [] w = "ttl" -> "--ttl"
      [] w = "compare" -> "--compare"
      [] w = "errors" -> "--errors"
      [] w = "stats" -> "--stats"
      [] w = "previous" -> "--previous"
      [] w = "rotated" -> "--rotated"

\* a word the parser takes for an option: it starts with "-"
OptionLike == {Dashed(w) : w \in ValueWords \cup FlagWords} \cup {"--bogus"}

\* a word that opens a quotation no later word closes
OpenQuoteWords == {"'etcd-a"}

\* shlex.split
ShlexSplit(line) ==
    IF \E k \in 1..Len(line) : line[k] \in OpenQuoteWords
    THEN [ok |-> FALSE, list |-> <<>>]
    ELSE [ok |-> TRUE, list |-> line]

\* the loop of parse_interactive_input that writes the words as options
RECURSIVE ConvertArgs(_, _)
ConvertArgs(args_list, i) ==
    IF i > Len(args_list) THEN <<>>
    ELSE IF args_list[i] \in ValueWords
    THEN IF i + 1 <= Len(args_list)
         THEN <<Dashed(args_list[i]), args_list[i + 1]>> \o ConvertArgs(args_list, i + 2)
         ELSE <<Dashed(args_list[i])>> \o ConvertArgs(args_list, i + 1)
    ELSE IF args_list[i] \in FlagWords
    THEN <<Dashed(args_list[i])>> \o ConvertArgs(args_list, i + 1)
    ELSE <<args_list[i]>> \o ConvertArgs(args_list, i + 1)

\* the year, month and day of a date word; <<>> when it is not three
\* numbers joined by "-", the first of four digits
DateFields(w) ==
    CASE w = "2023-08-30" -> <<2023, 8, 30>>
      [] w = "2023-13-01" -> <<2023, 13, 1>>
      [] w = "2023-02-30" -> <<2023, 2, 30>>
      [] OTHER -> <<>>

DaysInMonth(y, m) ==
    IF m = 2 THEN (IF y % 4 = 0 /\ (y % 100 # 0 \/ y % 400 = 0) THEN 29 ELSE 28)
    ELSE IF m \in {4, 6, 9, 11} THEN 30 ELSE 31

\* a validation that takes every word
ValidateDateAny(w) == TRUE

\* validate_date: strptime with %Y-%m-%d
ValidateDate(w) ==
    /\ DateFields(w) # <<>>
    /\ DateFields(w)[2] \in 1..12
    /\ DateFields(w)[3] \in 1..DaysInMonth(DateFields(w)[1], DateFields(w)[2])

\* the namespace before any option is read
EmptyNamespace ==
    [path |-> "", pod |-> "", date |-> "", ttl |-> FALSE, compare |-> FALSE,
     errors |-> FALSE, stats |-> FALSE, previous |-> FALSE, rotated |-> FALSE]

\* parser.parse_args of parse_interactive_input: ok is FALSE when argparse
\* reports an error (and calls sys.exit)
RECURSIVE ParseConverted(_, _, _)
ParseConverted(converted_args, i, ns) ==
    IF i > Len(converted_args) THEN [ok |-> TRUE, ns |-> ns]
    ELSE LET arg == converted_args[i]
         IN  IF \E w \in ValueWords : Dashed(w) = arg
             THEN LET w == CHOOSE w \in ValueWords : Dashed(w) = arg
                  IN  IF i + 1 > Len(converted_args) \/ converted_args[i + 1] \in OptionLike
                      THEN [ok |-> FALSE, ns |-> ns]
                      ELSE IF w = "date" /\ ~ValidateDate(converted_args[i + 1])
                      THEN [ok |-> FALSE, ns |-> ns]
                      ELSE ParseConverted(converted_args, i + 2,
                                          [ns EXCEPT ![w] = converted_args[i + 1]])
             ELSE IF \E w \in FlagWords : Dashed(w) = arg
             THEN LET w == CHOOSE w \in FlagWords : Dashed(w) = arg
                  IN  ParseConverted(converted_args, i + 1, [ns EXCEPT ![w] = TRUE])
             ELSE [ok |-> FALSE, ns |-> ns]

\* parse_interactive_input: ok is FALSE when it returns None
ParseInteractiveInput(line) ==
    IF ~ShlexSplit(line).ok
    THEN [ok |-> FALSE, ns |-> EmptyNamespace]
    ELSE ParseConverted(ConvertArgs(ShlexSplit(line).list, 1), 1, EmptyNamespace)

\* the namespace as execute_command reads it
NamespaceArgs(ns) ==
    [path |-> IF ns.path = "" THEN "empty" ELSE "given",
     op |-> IF ns.stats THEN "stats"
            ELSE IF ns.errors THEN "errors"
            ELSE IF ns.ttl THEN "ttl" ELSE "none",
     previous |-> ns.previous,
     rotated |-> ns.rotated,
     date |-> IF ns.date = "" THEN "absent" ELSE "valid"]

\* execute_command: what it prints of its own and the aggregator it starts
RunCommand(a) ==
    IF ValidateCommandArgs(a) # ""
    THEN [reported |-> ValidateCommandArgs(a), operation |-> "none"]
    ELSE ExecuteOperation(a)

BackWords == {<<"back">>, <<"navigate">>, <<"directories">>, <<"dirs">>, <<"nav">>}

CommandLinesTyped ==
    {<<>>, <<"exit">>, <<"quit">>, <<"help">>, <<"back">>, <<"dirs">>, Eof,
     <<"errors">>, <<"stats">>, <<"ttl">>, <<"compare">>,
     <<"ttl", "date", "2023-08-30">>, <<"ttl", "previous", "rotated">>,
     <<"errors", "pod", "'etcd-a">>, <<"--bogus">>, <<"run", "commands">>,
     <<"ttl", "date", "2023-13-01">>, <<"ttl", "date", "2023-02-30">>, <<"ttl", "date">>}

InitInteractive ==
    /\ frames = <<"interactive_mode", "folder_navigation_mode">>
    /\ user_input = NoInput
    /\ current_path = Cwd
    /\ previous_path = NoPath
    /\ display_options = ShowNavigationScreen(Cwd, NoPath)
    /\ base_path = NoPath
    /\ args = NoArgs
    /\ main_pc = "interactive"
    /\ reported = ""
    /\ operation = "none"
    /\ exit_status = -1
    /\ DurIdle /\ DirIdle /\ RotIdle /\ RunIdle /\ StatIdle /\ AggIdle /\ ErrIdle /\ MsgIdle

\* the function at its prompt
Top == IF frames = <<>> THEN "none" ELSE frames[Len(frames)]

\* folder_navigation_mode(cur, prev) begins
EnterNavigation(cur, prev) ==
    /\ current_path' = cur
    /\ previous_path' = prev
    /\ display_options' = ShowNavigationScreen(cur, prev)

\* command_mode has returned to interactive_mode, whose loop calls
\* folder_navigation_mode() again
NextPassOfLoop ==
    /\ frames' = <<"interactive_mode", "folder_navigation_mode">>
    /\ EnterNavigation(Cwd, NoPath)
    /\ base_path' = NoPath
    /\ UNCHANGED <<main_pc, exit_status>>

\* interactive_mode leaves its loop; main returns
LeaveInteractiveMode ==
    /\ frames' = <<>>
    /\ current_path' = NoPath
    /\ previous_path' = NoPath
    /\ display_options' = <<>>
    /\ base_path' = NoPath
    /\ main_pc' = "exited"
    /\ exit_status' = 0

\* a line read at the navigate> prompt and what the code does with it
NavigationPrompt ==
    /\ Top = "folder_navigation_mode"
    /\ \E line \in NavigationLines :
          /\ user_input' = line
          /\ \E r \in {NavigationStep(line, current_path, previous_path, display_options)} :
                IF r.ret = "no"
                THEN /\ current_path' = r.cur
                     /\ previous_path' = r.prev
                     /\ display_options' = r.opts
                     /\ UNCHANGED <<frames, base_path, main_pc, exit_status>>
                ELSE IF Len(frames) = 3
                THEN \* called by command_mode: its caller drops the value
                     NextPassOfLoop
                ELSE IF r.value = NoPath
                THEN LeaveInteractiveMode
                ELSE /\ frames' = <<"interactive_mode", "command_mode">>
                     /\ base_path' = r.value
                     /\ current_path' = NoPath
                     /\ previous_path' = NoPath
                     /\ display_options' = <<>>
                     /\ UNCHANGED <<main_pc, exit_status>>
    /\ reported' = ""
    /\ operation' = "none"
    /\ UNCHANGED <<args, durVars, dirVars, rotVars, runVars, statVars, aggVars, errVars,
                   msgVars>>

\* a line read at the etcd-diag> prompt and what the code does with it
CommandPrompt ==
    /\ Top = "command_mode"
    /\ \E line \in CommandLinesTyped :
          /\ user_input' = line
          /\ IF line = Eof \/ line \in {<<"exit">>, <<"quit">>}
             THEN /\ NextPassOfLoop
                  /\ reported' = ""
                  /\ operation' = "none"
             ELSE IF line \in BackWords
             THEN /\ frames' = Append(frames, "folder_navigation_mode")
                  /\ IF Parent(base_path) = base_path
                     THEN EnterNavigation(base_path, NoPath)
                     ELSE EnterNavigation(Parent(base_path), base_path)
                  /\ reported' = ""
                  /\ operation' = "none"
                  /\ UNCHANGED <<base_path, main_pc, exit_status>>
             ELSE IF line = <<>> \/ line = <<"help">>
             THEN /\ reported' = ""
                  /\ operation' = "none"
                  /\ UNCHANGED <<frames, current_path, previous_path, display_options,
                                 base_path, main_pc, exit_status>>
             ELSE /\ \E parsed \in {ParseInteractiveInput(line)} :
                        IF parsed.ok
                        THEN \E r \in {RunCommand([NamespaceArgs(parsed.ns)
                                                      EXCEPT !.path = "given"])} :
                                /\ reported' = r.reported
                                /\ operation' = r.operation
                        ELSE /\ reported' = IF ShlexSplit(line).ok
                                            THEN "usage"
                                            ELSE "Error parsing input"
                             /\ operation' = "none"
                  /\ UNCHANGED <<frames, current_path, previous_path, display_options,
                                 base_path, main_pc, exit_status>>
    /\ UNCHANGED <<args, durVars, dirVars, rotVars, runVars, statVars, aggVars, errVars,
                   msgVars>>

NextInteractive == NavigationPrompt \/ CommandPrompt

SpecInteractive == InitInteractive /\ [][NextInteractive]_vars


\* lines that do not parse: an unbalanced quote, an unknown option, a
\* malformed date
UnparsableLines ==
    {<<"errors", "pod", "'etcd-a">>, <<"--bogus">>, <<"ttl", "date", "2023-13-01">>,
     <<"ttl", "date", "2023-02-30">>}

ParseErrorStep ==
    (Top = "command_mode" /\ user_input' \in UnparsableLines) =>
        /\ frames' = frames
        /\ base_path' = base_path
        /\ operation' = "none"
        /\ reported' # ""
        /\ main_pc' = "interactive"

\* C17: in command mode a line that fails to parse does not end the
\* program and starts no aggregator: command mode stays at its prompt with
\* the same working directory.
ParseErrorRecovered == [][ParseErrorStep]_vars

\* a malformed date was typed in command mode on a directory chosen in
\* navigation
ParseErrorWitness ==
    /\ Top = "command_mode"
    /\ user_input = <<"ttl", "date", "2023-13-01">>
    /\ base_path = <<"work", "mg">>
    /\ reported = "usage"
    /\ operation = "none"

ExitStep ==
    (Top \in {"folder_navigation_mode", "command_mode"}
        /\ user_input' \in {<<"exit">>, <<"quit">>}) =>
        /\ frames' = <<>>
        /\ main_pc' = "exited"

\* C18: 'exit' or 'quit' typed at the prompt of either mode ends
\* interactive_mode: no further prompt is shown.
ExitEndsInteractiveMode == [][ExitStep]_vars

TwoStateStep ==
    /\ (Top = "folder_navigation_mode" /\ user_input' = <<"run", "commands">>) =>
            /\ Top' = "command_mode"
            /\ base_path' = current_path
    /\ (Top = "command_mode" /\ user_input' = <<"back">>) =>
            Top' = "folder_navigation_mode"

\* C19: 'run commands' in navigation mode always starts command mode on the
\* directory that is current then, also in a navigation entered through
\* 'back'; 'back' in command mode always starts navigation mode.
RunCommandsAndBackSwitchModes == [][TwoStateStep]_vars


-----------------------------------------------------------------------------
(* The two modes of msg_count.                                             *)

\* the rows the counted payloads call for
TruthRows(pod, c, date_search) ==
    [k \in 1..Len(c) |->
        IF date_search /\ c[k].ms >= 0
        THEN [POD |-> pod, DATE |-> c[k].key, COUNT |-> c[k].count,
              MAX_TIME |-> Fmt4(c[k].ms)]
        ELSE [POD |-> pod, DATE |-> c[k].key, COUNT |-> c[k].count]]

\* rows are written: they are the rows of the payloads counted from that
\* pod and log source, without MAX_TIME when no date is given
RowsWrittenStep ==
    (Len(errors') > Len(errors)) =>
        /\ errors' = errors \o TruthRows(etcd_pod_name, counted_truth, err_date_search)
        /\ \A k \in 1..Len(errors') :
              /\ err_date_search => Len(errors'[k].DATE) = 3 /\ errors'[k].DATE[2] = ":"
              /\ ~err_date_search =>
                    /\ "MAX_TIME" \notin DOMAIN errors'[k]
                    /\ Len(errors'[k].DATE) = 1 /\ errors'[k].DATE[1] \in Dates

\* C20: with no date given every row of msg_count is keyed by the calendar
\* date of the payload timestamp and has no MAX_TIME; with a date given
\* every row is keyed by the HH:MM of the payload timestamp and its
\* MAX_TIME is the largest converted 'took' among the payloads counted for
\* that pod, log source and bucket.
MsgCountModes == [][RowsWrittenStep]_vars

\* with a date given, a row of two payloads (100ms and 0.5s) whose MAX_TIME
\* is the 500 ms of the second
MsgCountModesWitness ==
    /\ err_date_search
    /\ \E k \in 1..Len(errors) :
          /\ errors[k].COUNT = 2
          /\ errors[k].DATE = <<"10", ":", "00">>
          /\ "MAX_TIME" \in DOMAIN errors[k]
          /\ errors[k].MAX_TIME = Fmt4(5000)


-----------------------------------------------------------------------------
(* The date filter of msg_count.                                           *)

\* what a line holds, read off its descriptor: the target pattern, the date
\* of the run anywhere in its text, a payload that decodes
PatternInLine(d) == d.payload # "none" /\ "msg" \in d.keys

DateInLine(d) ==
    \/ d.prefix
    \/ d.payload # "none" /\ "ts" \in d.keys /\ d.ts.date = ErrDate

PayloadDecodes(d) == d.payload = "object"

\* the payloads counted so far from the logs of the pod
CountedTotal(jd) == Sum([k \in 1..Len(jd) |-> jd[k].count])

\* a line of a log is processed with a date given
DateLineStep ==
    /\ err_date_search
    /\ pc \in {"rotated-scan", "current-scan"}
    /\ file # <<>>
    /\ pc' # "exited"

LineCounted == CountedTotal(json_dates') = CountedTotal(json_dates) + 1

\* the same for the lines whose payload, if it decodes, carries 'ts'
DateFilterOnTimestamped ==
    [][(DateLineStep /\ ~MissingTs(Head(file))) =>
          /\ LineCounted <=>
                (PatternInLine(Head(file)) /\ DateInLine(Head(file))
                    /\ PayloadDecodes(Head(file)))
          /\ ~LineCounted => json_dates' = json_dates
          /\ pc' = pc]_vars

\* C21: with a date given, a line is counted exactly when the target
\* pattern is in the line, the date string is anywhere in the line and the
\* payload decodes; the date of the payload's own timestamp is not compared.
DateFilterIsSubstringTest ==
    [][DateLineStep =>
          (LineCounted <=>
              (PatternInLine(Head(file)) /\ DateInLine(Head(file))
                  /\ PayloadDecodes(Head(file))))]_vars

\* a payload of another date was counted because the line starts with the
\* date of the run
OtherDateCounted ==
    /\ err_date_search
    /\ pc \in {"rotated-scan", "current-scan"}
    /\ json_dates # <<>>
    /\ counted_truth # <<>>
    /\ counted_truth[1].ms = 5000


-----------------------------------------------------------------------------
(* The files an aggregator holds open.                                     *)

\* the payload of the line does not decode
DecodeFails(d) == d.payload \in {"open", "two"}

\* a line is processed while its file is open
LineStep ==
    /\ pc \in {"scan", "rotated-scan", "current-scan"}
    /\ file # <<>>
    /\ pc' # "exited"

HandleStep ==
    \* at most one file is open
    /\ Len(handles') <= 1
    \* a file is opened only when none is open
    /\ opened' # <<>> => handles = <<>>
    \* the file read is the one that is open
    /\ LineStep => Len(handles) = 1
    \* a payload that does not decode leaves the scan and its file as they are
    /\ (LineStep /\ DecodeFails(Head(file))) =>
            /\ pc' = pc
            /\ file' = Tail(file)
            /\ handles' = handles
    \* however the run ends, no file is left open
    /\ pc' \in {"returned", "raised", "exited"} => handles' = <<>>

\* C22: in a run of etcd_errors, msg_count or etcd_stats at most one log
\* file is open at any moment, a file is closed before the next is opened,
\* and it is closed on every way out of its scan: a payload that does not
\* decode does not end the scan, an exception raised on a line closes the
\* file.
OneFileOpenAtATime == [][HandleStep]_vars

\* the log of the second pod was open alone and an exception raised on one
\* of its lines closed it
FileClosedOnException ==
    /\ pc = "raised"
    /\ exc \in {"KeyError", "ValueError"}
    /\ pod_i = 2
    /\ out # <<>>
    /\ handles = <<>>

\* the log of the second pod is open alone, past a line whose payload did
\* not decode
SecondLogOpenAlone ==
    /\ pc = "scan"
    /\ pod_i = 2
    /\ handles = << CurrentLog(sorted_directories[2]) >>
    /\ error_count >= 1
    /\ etcd_error_stats = <<>>
    /\ file # <<>>

=============================================================================
